---- MODULE Spec2Model ----
(***************************************************************************)
(* A model of deczoo: the check_parens dispatcher (src/deczoo/_utils.py)   *)
(* and the decorator factories of src/deczoo/decorators.py.                *)
(*                                                                         *)
(* Python values are records tagged by their type in field t.  A call      *)
(* either returns a value or raises an exception: an outcome.  A wrapper   *)
(* call is a pure function of the wrapper's closure, the call's arguments  *)
(* and the outcomes the target gives on its successive invocations (the    *)
(* script); it yields the outcome, the events performed in order (target   *)
(* invocations, log lines, sleeps) and the wrapper's new _calls attribute. *)
(***************************************************************************)
EXTENDS Integers, Sequences, FiniteSets, TLC

VARIABLES
    wrapper,      \* the decorated callable under test, or NoWrapper
    decor_err,    \* the exception the last decoration raised, or NoError
    invocations,  \* completed invocations of wrapper
    runs,         \* executions of the target's body (its side-effect counter)
    last,         \* the last invocation: args, script, outcome, events; or NoCall
    decor,        \* the decoration call that built wrapper: factory, args; or NoCall
    d_in,         \* dispatcher scenario: factory, target, configuration
    d_res,        \* what each calling form produced for d_in
    d_out,        \* the outcome of calling each produced wrapper once
    d_def,        \* what the deferred forms of the dispatcher produced for d_in
    os,           \* process-wide state: RLIMIT_AS, signal handlers, pending alarm
    threads,      \* concurrent callers: each one's position in the wrapper and locals
    heap          \* the callables created so far, by identity: heap[i] is object i

vars == <<wrapper, decor_err, invocations, runs, last, decor, d_in, d_res, d_out,
          d_def, os, threads, heap>>

-----------------------------------------------------------------------------
(* Bounds of the model *)

\* Largest absolute value of a seed drawn for call_counter.
MaxSeed == 2
\* Largest n_tries drawn for retry.
MaxTries == 3
\* Largest number of wrapper invocations in one behaviour.
MaxInvocations == 2
\* Largest time limit, and longest execution of a target, in seconds.
MaxSeconds == 2
\* Largest number of callables alive at once: a target and the wrappers made from it.
MaxObjects == 3

-----------------------------------------------------------------------------
(* Python values *)

PyNone == [t |-> "none"]
PyInt(n) == [t |-> "int", i |-> n]
PyBool(b) == [t |-> "bool", b |-> b]
\* A float, kept in hundredths: 1.1 is PyFloat(110), 0.99 is PyFloat(99).
PyFloat(n) == [t |-> "float", hundredths |-> n]
PyStr(s) == [t |-> "str", s |-> s]
PyTuple(items) == [t |-> "tuple", items |-> items]
\* A plain function object, such as print or a lambda.
PyFn(name) == [t |-> "fn", name |-> name]
\* An array-like object: only its shape is observed.
PyArr(shape) == [t |-> "arr", shape |-> shape]
\* An exception instance.
PyExc(type, msg) == [t |-> "exc", type |-> type, msg |-> msg]
\* A pathlib.Path.
PyPath(s) == [t |-> "path", s |-> s]
\* An instance of a concrete subclass of BaseNotifier.
PyNotifier(name) == [t |-> "notifier", name |-> name]
\* An instance of any other class.
PyObject(name) == [t |-> "object", name |-> name]
\* A member of an Enum, such as signal.SIGALRM (an IntEnum of value 14).
PyEnum(name, value) == [t |-> "enum", name |-> name, value |-> value]

\* isinstance(v, int): bool is a subclass of int.
IsInt(v) == v.t \in {"int", "bool"}
IsBoolean(v) == v.t = "bool"
IsStr(v) == v.t = "str"
\* isinstance(v, (int, float))
IsNumber(v) == v.t \in {"int", "bool", "float"}
\* callable(v)
IsCallable(v) == v.t \in {"fn", "wrapper", "partial", "excclass"}
\* isinstance(v, collections.abc.Sequence): str is a Sequence too.
IsSequence(v) == v.t \in {"tuple", "str"}
\* The items a Sequence iterates over (the characters of the strings used here are
\* never ints, so a one-character stand-in is enough).
SeqItems(v) == IF v.t = "tuple" THEN v.items ELSE IF v.s = "" THEN <<>> ELSE <<PyStr(v.s)>>

\* The integer an int or a bool counts as.
IntOf(v) == IF v.t = "bool" THEN (IF v.b THEN 1 ELSE 0) ELSE v.i
\* The number an int, bool or float counts as, in hundredths.
HundredthsOf(v) == IF v.t = "float" THEN v.hundredths ELSE 100 * IntOf(v)

\* isinstance(e, Exception): KeyboardInterrupt and SystemExit derive from
\* BaseException only, and an `except Exception` clause lets them through.
IsException(e) == e.type \notin {"KeyboardInterrupt", "SystemExit"}

(* Outcomes of a call *)
Ret(v) == [k |-> "return", val |-> v]
Raise(e) == [k |-> "raise", exc |-> e]

(* Events a wrapper call performs, in order *)
EvCall == <<"call">>
EvLog(msg) == <<"log", msg>>
EvSleep(d) == <<"sleep", d>>

EvNotify == <<"notify">>
EvChime(kind) == <<"chime", kind>>
EvWrite(file, msg) == <<"write", file, msg>>
EvAlarm(seconds) == <<"alarm", seconds>>
EvSignal(sig) == <<"signal", sig>>

NoWrapper == [t |-> "nowrapper"]
NoError == [t |-> "noerror"]
NoCall == [t |-> "nocall"]

\* f restricted to the keys in S
Restrict(f, S) == [x \in S |-> f[x]]
\* the mapping g, overridden by f (dict(g, **f))
Override(f, g) == [x \in (DOMAIN f) \cup (DOMAIN g) |-> IF x \in DOMAIN f THEN f[x] ELSE g[x]]
\* the set of elements of a sequence
Range(s) == {s[i] : i \in DOMAIN s}

-----------------------------------------------------------------------------
(* The process: resource limits, signal handlers, the pending alarm, threads *)

\* resource.RLIM_INFINITY
RLIM_INFINITY == -1
SIGALRM == PyEnum("SIGALRM", 14)
\* the signal a signum argument stands for
SigOf(v) == IF v.t = "enum" THEN v.value ELSE IntOf(v)
\* the signals of the model: SIGHUP and SIGALRM
Signals == {1, 14}
\* signal.SIG_DFL: the default disposition, which for both signals ends the process
SIG_DFL == [t |-> "SIG_DFL"]
\* a handler function; raises is the exception its body raises, NoError when it
\* returns normally
PyHandler(name, raises) == [t |-> "fn", name |-> name, raises |-> raises]

\* a fresh process: no address-space limit, default dispositions, no alarm pending
ProcessStart ==
    [rlimit |-> [soft |-> RLIM_INFINITY, hard |-> RLIM_INFINITY],
     handlers |-> [sig \in Signals |-> SIG_DFL],
     alarm |-> 0]

\* the threads that call a wrapper concurrently
Threads == {"t1", "t2"}
\* a thread that is not inside a wrapper call
Idle == [pc |-> "idle"]

-----------------------------------------------------------------------------
(* Calling a Python function: binding arguments to parameters *)

Min(a, b) == IF a < b THEN a ELSE b
\* the position of name p in the parameter list
IndexOf(params, p) == CHOOSE i \in 1..Len(params) : params[i] = p

\* f(pos, kw) for a function with positional-or-keyword parameters `params`,
\* those in `required` having no default, and a var-keyword parameter when `varkw`.
\* Python raises TypeError when the arguments do not fit; otherwise `args` maps
\* each explicitly supplied parameter to its value and `extra` holds the keywords
\* it takes.  Defaults are not applied here.
PyBind(params, required, varkw, pos, kw) ==
    LET byPos == {params[i] : i \in 1..Min(Len(pos), Len(params))}
        names == Range(params)
        byKw  == (DOMAIN kw) \cap names
    IN  IF Len(pos) > Len(params)
          THEN [ok |-> FALSE, err |-> PyExc("TypeError", "too many positional arguments")]
        ELSE IF (DOMAIN kw) \cap byPos # {}
          THEN [ok |-> FALSE, err |-> PyExc("TypeError", "multiple values for argument")]
        ELSE IF ~varkw /\ (DOMAIN kw) \ names # {}
          THEN [ok |-> FALSE, err |-> PyExc("TypeError", "unexpected keyword argument")]
        ELSE IF required \ (byPos \cup byKw) # {}
          THEN [ok |-> FALSE, err |-> PyExc("TypeError", "missing required argument")]
        ELSE [ok |-> TRUE,
              args |-> [p \in byPos \cup byKw |->
                          IF p \in byPos THEN pos[IndexOf(params, p)] ELSE kw[p]],
              extra |-> Restrict(kw, (DOMAIN kw) \ names)]

\* A target callable: a plain function with a name and a signature.
Target(name, params, defaults) ==
    [t |-> "fn", name |-> name, params |-> params, defaults |-> defaults]
\* the parameters of a target that have no default
Required(func) == Range(func.params) \ DOMAIN func.defaults

\* An exception class, as given to raise_on_exception.
PyExcClass(name) == [t |-> "excclass", name |-> name]
\* A predicate given to check_args as a rule: lambda t: t > n, lambda t: t < n.
PyPred(op, n) == [t |-> "fn", name |-> "<lambda>", op |-> op, n |-> n]
\* rule(v), for an integer v
RuleHolds(rule, v) == IF rule.op = "gt" THEN IntOf(v) > rule.n ELSE IntOf(v) < rule.n

\* The process-wide default logging function.
LOGGING_FN == PyFn("LOGGING_FN")

-----------------------------------------------------------------------------
(* The decorator factories: signature, validation, the wrapper they build *)

Factories == {"call_counter", "catch", "check_args", "retry", "multi_shape_tracker"}
\* every factory of decorators.py
Catalog ==
    {"call_counter", "catch", "check_args", "chime_on_end", "log", "memory_limit",
     "notify_on_end", "retry", "shape_tracker", "multi_shape_tracker", "timeout"}
\* the factories whose wrappers act on something outside the call: a log, a sound,
\* a notifier, the process's signals and limits
EffectFactories == {"log", "chime_on_end", "notify_on_end", "timeout", "memory_limit"}

\* the parameters of each factory, func first
FactoryParams(f) ==
    CASE f = "call_counter" -> <<"func", "seed", "log_counter", "logging_fn">>
      [] f = "catch" -> <<"func", "return_on_exception", "raise_on_exception", "logging_fn">>
      [] f = "check_args" -> <<"func">>
      [] f = "retry" -> <<"func", "n_tries", "delay", "logging_fn">>
      [] f = "multi_shape_tracker" ->
            <<"func", "shapes_in", "shapes_out", "raise_if_empty", "logging_fn">>
      [] f = "log" ->
            <<"func", "log_time", "log_args", "log_error", "log_file", "logging_fn">>
      [] f = "chime_on_end" -> <<"func", "theme">>
      [] f = "notify_on_end" -> <<"func", "notifier">>
      [] f = "timeout" -> <<"func", "time_limit", "signal_handler", "signum">>
      [] f = "memory_limit" -> <<"func", "percentage", "logging_fn">>
      [] f = "shape_tracker" ->
            <<"func", "shape_in", "shape_out", "shape_delta", "raise_if_empty",
              "arg_to_track", "logging_fn">>

\* check_args takes its rules as keyword arguments
FactoryVarKw(f) == f = "check_args"

\* the declared defaults of each factory
FactoryDefaults(f) ==
    CASE f = "call_counter" ->
            [func |-> PyNone, seed |-> PyInt(0), log_counter |-> PyBool(TRUE),
             logging_fn |-> LOGGING_FN]
      [] f = "catch" ->
            [func |-> PyNone, return_on_exception |-> PyNone,
             raise_on_exception |-> PyNone, logging_fn |-> LOGGING_FN]
      [] f = "check_args" -> [func |-> PyNone]
      [] f = "retry" ->
            [func |-> PyNone, n_tries |-> PyInt(3), delay |-> PyFloat(0),
             logging_fn |-> LOGGING_FN]
      [] f = "multi_shape_tracker" ->
            [func |-> PyNone, shapes_in |-> PyNone, shapes_out |-> PyStr("all"),
             raise_if_empty |-> PyStr("any"), logging_fn |-> LOGGING_FN]
      [] f = "log" ->
            [func |-> PyNone, log_time |-> PyBool(TRUE), log_args |-> PyBool(TRUE),
             log_error |-> PyBool(TRUE), log_file |-> PyNone, logging_fn |-> LOGGING_FN]
      [] f = "chime_on_end" -> [func |-> PyNone, theme |-> PyStr("mario")]
      [] f = "notify_on_end" -> [func |-> PyNone, notifier |-> PyNone]
      [] f = "timeout" ->
            [func |-> PyNone, time_limit |-> PyNone, signal_handler |-> PyNone,
             signum |-> SIGALRM]
      [] f = "memory_limit" ->
            [func |-> PyNone, percentage |-> PyFloat(99), logging_fn |-> LOGGING_FN]
      [] f = "shape_tracker" ->
            [func |-> PyNone, shape_in |-> PyBool(FALSE), shape_out |-> PyBool(TRUE),
             shape_delta |-> PyBool(FALSE), raise_if_empty |-> PyBool(TRUE),
             arg_to_track |-> PyInt(0), logging_fn |-> LOGGING_FN]

\* nothing of the wrapped callable's __dict__ carried over
WrapsAttrs_none(func) == <<>>

\* functools.wraps copies the wrapped callable's __dict__ onto the wrapper
WrapsAttrs(func) == IF func.t = "wrapper" THEN func.attrs ELSE <<>>

\* getattr(func, "__doc__"): None for a function defined without a docstring
DocOf(func) == IF "doc" \in DOMAIN func THEN func.doc ELSE PyNone

\* the function each factory, and the dispatcher, defines with
\* def wrapper(*args, **kwargs), before functools.wraps is applied to it
InnerWrapper == [name |-> "wrapper", doc |-> PyNone]

\* the inner function returned as it was defined
wraps_nothing(wrapped, inner) == inner

\* functools.wraps(wrapped)(inner): __name__ and __doc__ are copied from wrapped;
\* an attribute that wrapped does not have is left as inner has it
wraps(wrapped, inner) ==
    [name |-> IF "name" \in DOMAIN wrapped THEN wrapped.name ELSE inner.name,
     doc |-> DocOf(wrapped)]

\* the closure a factory returns: the wrapped callable, the options it captured,
\* the attributes of the wrapper object, and the __name__ and __doc__ it reports
MkWrapper(f, func, cfg, attrs) ==
    [t |-> "wrapper", factory |-> f, func |-> func, cfg |-> cfg, attrs |-> attrs]
    @@ wraps(func, InnerWrapper)

call_counter(cfg) ==
    IF ~IsInt(cfg.seed)
      THEN Raise(PyExc("TypeError", "seed argument must be an int"))
    ELSE IF ~IsBoolean(cfg.log_counter)
      THEN Raise(PyExc("TypeError", "log_counter argument must be a bool"))
    ELSE IF cfg.log_counter = PyBool(TRUE) /\ ~IsCallable(cfg.logging_fn)
      THEN Raise(PyExc("TypeError", "logging_fn argument must be a callable"))
    ELSE Ret(MkWrapper("call_counter", cfg.func,
                       Restrict(cfg, {"seed", "log_counter", "logging_fn"}),
                       Override([_calls |-> cfg.seed], WrapsAttrs(cfg.func))))

catch(cfg) ==
    IF ~IsCallable(cfg.logging_fn)
      THEN Raise(PyExc("TypeError", "logging_fn argument must be a callable"))
    ELSE Ret(MkWrapper("catch", cfg.func,
                       Restrict(cfg, {"return_on_exception", "raise_on_exception",
                                      "logging_fn"}),
                       WrapsAttrs(cfg.func)))

check_args(cfg, rules) ==
    IF \E r \in DOMAIN rules : ~IsCallable(rules[r])
      THEN Raise(PyExc("ValueError", "All rules must be callable"))
    ELSE Ret(MkWrapper("check_args", cfg.func, rules, WrapsAttrs(cfg.func)))

retry(cfg) ==
    IF ~IsInt(cfg.n_tries) \/ IntOf(cfg.n_tries) < 1
      THEN Raise(PyExc("ValueError", "n_tries should be a positive integer"))
    ELSE IF ~IsNumber(cfg.delay) \/ HundredthsOf(cfg.delay) < 0
      THEN Raise(PyExc("ValueError", "delay should be a positive number"))
    ELSE IF ~IsCallable(cfg.logging_fn)
      THEN Raise(PyExc("TypeError", "logging_fn should be a callable"))
    ELSE Ret(MkWrapper("retry", cfg.func,
                       Restrict(cfg, {"n_tries", "delay", "logging_fn"}),
                       WrapsAttrs(cfg.func)))

multi_shape_tracker(cfg) ==
    IF ~IsCallable(cfg.logging_fn)
      THEN Raise(PyExc("TypeError", "logging_fn should be a callable"))
    ELSE Ret(MkWrapper("multi_shape_tracker", cfg.func,
                       Restrict(cfg, {"shapes_in", "shapes_out", "raise_if_empty",
                                      "logging_fn"}),
                       WrapsAttrs(cfg.func)))

chime_on_end(cfg) ==
    Ret(MkWrapper("chime_on_end", cfg.func, Restrict(cfg, {"theme"}), WrapsAttrs(cfg.func)))

log(cfg) ==
    IF ~(IsBoolean(cfg.log_time) /\ IsBoolean(cfg.log_args) /\ IsBoolean(cfg.log_error))
      THEN Raise(PyExc("TypeError", "log_time, log_args and log_error must be bool"))
    ELSE IF cfg.log_file # PyNone /\ cfg.log_file.t \notin {"str", "path"}
      THEN Raise(PyExc("TypeError", "log_file must be either None, str or Path"))
    ELSE IF ~IsCallable(cfg.logging_fn)
      THEN Raise(PyExc("TypeError", "logging_fn must be callable"))
    ELSE Ret(MkWrapper("log", cfg.func,
                       Restrict(cfg, {"log_time", "log_args", "log_error", "log_file",
                                      "logging_fn"}),
                       WrapsAttrs(cfg.func)))

memory_limit(cfg) ==
    IF cfg.percentage.t # "float"
      THEN Raise(PyExc("TypeError", "percentage should be a float"))
    ELSE IF ~(0 <= cfg.percentage.hundredths /\ cfg.percentage.hundredths <= 100)
      THEN Raise(PyExc("ValueError", "percentage should be between 0 and 1"))
    ELSE IF ~IsCallable(cfg.logging_fn)
      THEN Raise(PyExc("TypeError", "logging_fn should be a callable"))
    ELSE Ret(MkWrapper("memory_limit", cfg.func, Restrict(cfg, {"percentage", "logging_fn"}),
                       WrapsAttrs(cfg.func)))

notify_on_end(cfg) ==
    IF cfg.notifier.t # "notifier"
      THEN Raise(PyExc("TypeError", "notifier should be an instance of a BaseNotifier"))
    ELSE Ret(MkWrapper("notify_on_end", cfg.func, Restrict(cfg, {"notifier"}),
                       WrapsAttrs(cfg.func)))

shape_tracker(cfg) ==
    IF ~IsBoolean(cfg.shape_in)
      THEN Raise(PyExc("TypeError", "shape_in should be a boolean"))
    ELSE IF ~IsBoolean(cfg.shape_out)
      THEN Raise(PyExc("TypeError", "shape_out should be a boolean"))
    ELSE IF ~IsBoolean(cfg.shape_delta)
      THEN Raise(PyExc("TypeError", "shape_delta should be a boolean"))
    ELSE IF ~IsBoolean(cfg.raise_if_empty)
      THEN Raise(PyExc("TypeError", "raise_if_empty should be a boolean"))
    ELSE IF ~(IsStr(cfg.arg_to_track) \/ IsInt(cfg.arg_to_track))
      THEN Raise(PyExc("TypeError", "arg_to_track should be a string or a positive integer"))
    ELSE IF IsInt(cfg.arg_to_track) /\ IntOf(cfg.arg_to_track) < 0
      THEN Raise(PyExc("TypeError", "arg_to_track should be a string or a positive integer"))
    ELSE IF ~IsCallable(cfg.logging_fn)
      THEN Raise(PyExc("TypeError", "logging_fn should be a callable"))
    ELSE Ret(MkWrapper("shape_tracker", cfg.func,
                       Restrict(cfg, {"shape_in", "shape_out", "shape_delta",
                                      "raise_if_empty", "arg_to_track", "logging_fn"}),
                       WrapsAttrs(cfg.func)))

\* the handler timeout defines when none is given
DefaultHandler(func) ==
    PyHandler("signal_handler",
              PyExc("TimeoutError", <<"Reached time limit, terminating", func.name>>))

\* the closure keeps the handler that the factory bound to signum
timeout(cfg) ==
    IF ~IsInt(cfg.time_limit) \/ IntOf(cfg.time_limit) < 0
      THEN Raise(PyExc("ValueError", "time_limit should be a strictly positive number"))
    ELSE IF ~(IsInt(cfg.signum) \/ cfg.signum.t = "enum")
      THEN Raise(PyExc("TypeError", "signum should be an int or an Enum"))
    ELSE IF cfg.signal_handler # PyNone /\ ~IsCallable(cfg.signal_handler)
      THEN Raise(PyExc("TypeError", "signal_handler should be a callable"))
    ELSE Ret(MkWrapper("timeout", cfg.func,
                       [time_limit |-> cfg.time_limit, signum |-> cfg.signum,
                        signal_handler |-> IF cfg.signal_handler = PyNone
                                             THEN DefaultHandler(cfg.func)
                                             ELSE cfg.signal_handler],
                       WrapsAttrs(cfg.func)))

\* the handler bound only when the wrapper is called: decoration leaves the
\* process as it is
FactoryEffect_none(proc, r) == proc

\* what applying a factory does to the process: timeout binds its handler to signum
\* with signal.signal once its arguments have passed validation
FactoryEffect(proc, r) ==
    IF r.k = "return" /\ r.val.t = "wrapper" /\ r.val.factory = "timeout"
      THEN [proc EXCEPT !.handlers[SigOf(r.val.cfg.signum)] = r.val.cfg.signal_handler]
      ELSE proc

\* factory(pos, kw), for the undecorated factory function: Python binds the
\* arguments, fills in the defaults and runs the factory's body.
FactoryCall(f, pos, kw) ==
    LET b == PyBind(FactoryParams(f), {}, FactoryVarKw(f), pos, kw)
    IN  IF ~b.ok THEN Raise(b.err)
        ELSE LET cfg == Override(b.args, FactoryDefaults(f))
             IN  CASE f = "call_counter" -> call_counter(cfg)
                   [] f = "catch" -> catch(cfg)
                   [] f = "check_args" -> check_args(cfg, b.extra)
                   [] f = "retry" -> retry(cfg)
                   [] f = "multi_shape_tracker" -> multi_shape_tracker(cfg)
                   [] f = "log" -> log(cfg)
                   [] f = "chime_on_end" -> chime_on_end(cfg)
                   [] f = "notify_on_end" -> notify_on_end(cfg)
                   [] f = "timeout" -> timeout(cfg)
                   [] f = "memory_limit" -> memory_limit(cfg)
                   [] f = "shape_tracker" -> shape_tracker(cfg)

-----------------------------------------------------------------------------
(* The dispatcher: check_parens *)

\* functools.partial(decorator, args, kwargs)
Partial(f, args, kwargs) == [t |-> "partial", fn |-> f, args |-> args, kwargs |-> kwargs]

\* the stored keywords lost when the partial object is called
partial_call_drops_kwargs(p, pos, kw) == FactoryCall(p.fn, p.args \o pos, kw)

\* p(pos, kw) for a partial object p: the stored positional arguments come
\* first, the call's keywords override the stored ones.
partial_call(p, pos, kw) == FactoryCall(p.fn, p.args \o pos, Override(kw, p.kwargs))

\* the configuration validated as soon as it is given, against a stand-in target
check_parens_eager(f, pos, kw) ==
    IF Len(pos) > 0
      THEN FactoryCall(f, pos, kw)
      ELSE LET r == FactoryCall(f, <<PyFn("stand_in")>>, kw)
           IN  IF r.k = "raise" THEN r ELSE Ret(Partial(f, <<>>, kw))

\* the absent func kept as the partial object's first argument:
\* partial(decorator, func, args, kwargs)
check_parens_keeps_func(f, pos, kw) ==
    IF Len(pos) > 0
      THEN FactoryCall(f, pos, kw)
      ELSE Ret(Partial(f, <<PyNone>>, kw))

\* check_parens(decorator)(pos, kw): the wrapper of lines 58-63, whose own
\* signature is (func=None, args..., kwargs...).
check_parens(f, pos, kw) ==
    IF Len(pos) > 0 /\ "func" \in DOMAIN kw
      THEN Raise(PyExc("TypeError", "multiple values for argument"))
    ELSE LET func == IF Len(pos) > 0 THEN pos[1]
                     ELSE IF "func" \in DOMAIN kw THEN kw["func"] ELSE PyNone
             args == IF Len(pos) > 0 THEN Tail(pos) ELSE <<>>
             kwargs == Restrict(kw, (DOMAIN kw) \ {"func"})
         IN  IF func = PyNone
               THEN Ret(Partial(f, args, kwargs))
               ELSE FactoryCall(f, <<func>> \o args, kwargs)

\* Applying what the dispatcher returned for a configuration to a target:
\* decorator(**config)(target).
ApplyDeferred(r, target) ==
    IF r.k = "raise" THEN r
    ELSE IF r.val.t = "partial" THEN partial_call(r.val, <<target>>, <<>>)
    ELSE Raise(PyExc("TypeError", "wrapper called with a target"))


-----------------------------------------------------------------------------
(* The wrappers: what one call wrapper(pos, kw) does.                     *)
(* script[i] is the outcome of the i-th invocation of the target in the call. *)
(* The result holds the call's outcome, its events in order and the wrapper's *)
(* attributes after the call.                                                 *)

Done(out, events, attrs) == [out |-> out, events |-> events, attrs |-> attrs]

\* wrapper._calls += 1
IncrementCalls(attrs) == [attrs EXCEPT !["_calls"] = PyInt(IntOf(@) + 1)]

\* the increment placed after the call of func: a call that raises is not counted
call_counter_wrapper_after(w, pos, kw, script) ==
    LET attrs == IF script[1].k = "return" THEN IncrementCalls(w.attrs) ELSE w.attrs
    IN  Done(script[1], <<EvCall>>, attrs)

call_counter_wrapper(w, pos, kw, script) ==
    LET attrs == IncrementCalls(w.attrs)
        logged == IF w.cfg.log_counter = PyBool(TRUE)
                    THEN <<EvLog(<<w.func.name, "called", IntOf(attrs["_calls"]), "times">>)>>
                    ELSE <<>>
    IN  Done(script[1], logged \o <<EvCall>>, attrs)

\* wrapper._calls += 1 as the interpreter executes it: the attribute is loaded,
\* one is added to the loaded value, and the sum is stored back
call_counter_load(w) == IntOf(w.attrs["_calls"])

\* the loaded value stored back as it is
call_counter_store_same(w, loaded) == [w EXCEPT !.attrs["_calls"] = PyInt(loaded)]

call_counter_store(w, loaded) == [w EXCEPT !.attrs["_calls"] = PyInt(loaded + 1)]

\* raise v
PyRaise(v) ==
    IF v.t = "exc" THEN Raise(v)
    ELSE IF v.t = "excclass" THEN Raise(PyExc(v.name, ""))
    ELSE Raise(PyExc("TypeError", "exceptions must derive from BaseException"))

\* `v`, tested as a truth value instead of against None
is_truthy(v) == v \notin {PyNone, PyInt(0), PyBool(FALSE), PyStr(""), PyFloat(0)}

\* v is not None
is_not_None(v) == v # PyNone

\* raise e, replaced by a fresh exception that keeps only the message
reraise_generic(e) == Raise(PyExc("Exception", e.msg))

\* raise e
reraise(e) == Raise(e)

\* the except clause with raise_on_exception tested first
catch_handler_raise_first(w, e) ==
    IF is_not_None(w.cfg.raise_on_exception)
      THEN [out |-> PyRaise(w.cfg.raise_on_exception),
            events |-> <<EvLog(<<"Failed with error", e.msg>>)>>]
    ELSE IF is_not_None(w.cfg.return_on_exception)
      THEN [out |-> Ret(w.cfg.return_on_exception),
            events |-> <<EvLog(<<"Failed with error", e.msg, "returning",
                                 w.cfg.return_on_exception>>)>>]
    ELSE [out |-> reraise(e), events |-> <<EvLog(<<"Failed with error", e.msg>>)>>]

\* the body of `except Exception as e`
catch_handler(w, e) ==
    IF is_not_None(w.cfg.return_on_exception)
      THEN [out |-> Ret(w.cfg.return_on_exception),
            events |-> <<EvLog(<<"Failed with error", e.msg, "returning",
                                 w.cfg.return_on_exception>>)>>]
    ELSE IF is_not_None(w.cfg.raise_on_exception)
      THEN [out |-> PyRaise(w.cfg.raise_on_exception),
            events |-> <<EvLog(<<"Failed with error", e.msg>>)>>]
    ELSE [out |-> reraise(e), events |-> <<EvLog(<<"Failed with error", e.msg>>)>>]

catch_wrapper(w, pos, kw, script) ==
    LET o == script[1]
    IN  IF o.k = "return" \/ ~IsException(o.exc)
          THEN Done(o, <<EvCall>>, w.attrs)
          ELSE LET h == catch_handler(w, o.exc)
               IN  Done(h.out, <<EvCall>> \o h.events, w.attrs)

\* the first parameter, in signature order, whose supplied value breaks its rule;
\* 0 when there is none
FirstBrokenRule(func, rules, args) ==
    LET broken == {i \in 1..Len(func.params) :
                      /\ func.params[i] \in DOMAIN args
                      /\ func.params[i] \in DOMAIN rules
                      /\ ~RuleHolds(rules[func.params[i]], args[func.params[i]])}
    IN  IF broken = {} THEN 0 ELSE CHOOSE i \in broken : \A j \in broken : i <= j

\* the rules checked after the target has run
check_args_wrapper_late(w, pos, kw, script) ==
    LET b == PyBind(w.func.params, Required(w.func), FALSE, pos, kw)
    IN  IF ~b.ok THEN Done(Raise(b.err), <<>>, w.attrs)
        ELSE LET i == FirstBrokenRule(w.func, w.cfg, b.args)
             IN  IF script[1].k = "return" /\ i # 0
                   THEN Done(Raise(PyExc("ValueError",
                                         <<"Argument", w.func.params[i],
                                           "doesn't satisfy its rule">>)),
                             <<EvCall>>, w.attrs)
                   ELSE Done(script[1], <<EvCall>>, w.attrs)

check_args_wrapper(w, pos, kw, script) ==
    LET b == PyBind(w.func.params, Required(w.func), FALSE, pos, kw)
    IN  IF ~b.ok THEN Done(Raise(b.err), <<>>, w.attrs)
        ELSE LET i == FirstBrokenRule(w.func, w.cfg, b.args)
             IN  IF i # 0
                   THEN Done(Raise(PyExc("ValueError",
                                         <<"Argument", w.func.params[i],
                                           "doesn't satisfy its rule">>)),
                             <<>>, w.attrs)
                   ELSE Done(script[1], <<EvCall>>, w.attrs)

\* the loop stopping one attempt short
retry_continue_short(attempt, n_tries) == attempt < n_tries - 1

\* while attempt < n_tries
retry_continue(attempt, n_tries) == attempt < n_tries

\* the error raised as soon as one attempt has failed
retry_exhausted_at_once(attempt, n_tries) == attempt >= 1

\* the last error never raised: the loop runs out and the call returns None
retry_exhausted_never(attempt, n_tries) == attempt > n_tries

\* if attempt == n_tries, after attempt += 1
retry_exhausted(attempt, n_tries) == attempt = n_tries

\* the while loop of retry's wrapper, entered with `attempt` failed attempts behind
\* it and `events` performed so far
RECURSIVE retry_loop(_, _, _, _)
retry_loop(w, script, attempt, events) ==
    LET n_tries == IntOf(w.cfg.n_tries)
    IN  IF ~retry_continue(attempt, n_tries) THEN Done(Ret(PyNone), events, w.attrs)
        ELSE LET o == script[attempt + 1]
             IN  IF o.k = "return"
                   THEN Done(o, events \o <<EvCall,
                                 EvLog(<<"Attempt", attempt + 1, n_tries, "Successed">>)>>,
                             w.attrs)
                 ELSE IF ~IsException(o.exc)
                   THEN Done(o, events \o <<EvCall>>, w.attrs)
                 ELSE LET ev == events \o
                                 <<EvCall,
                                   EvLog(<<"Attempt", attempt + 1, n_tries,
                                           "Failed with error:", o.exc.msg>>),
                                   EvSleep(w.cfg.delay)>>
                      IN  IF retry_exhausted(attempt + 1, n_tries)
                            THEN Done(Raise(o.exc), ev, w.attrs)
                            ELSE retry_loop(w, script, attempt + 1, ev)

retry_wrapper(w, pos, kw, script) == retry_loop(w, script, 0, <<>>)


(* multi_shape_tracker's wrapper *)

Ok(v) == [ok |-> TRUE, val |-> v]
Err(e) == [ok |-> FALSE, err |-> e]

\* an int that is not negative (a bool counts as an int)
IsIndex(v) == IsInt(v) /\ IntOf(v) >= 0
\* all(isinstance(x, str) for x in items)
AllStr(items) == \A i \in DOMAIN items : IsStr(items[i])
\* all(isinstance(x, int) and x >= 0 for x in items)
AllIndex(items) == \A i \in DOMAIN items : IsIndex(items[i])

\* tuple(func_args.items()): the supplied parameters in signature order
BoundNames(func, args) == SelectSeq(func.params, LAMBDA p : p \in DOMAIN args)

\* the names of the arguments that shapes_in selects (lines 751-788)
ParseShapesIn(shapes_in, func, args) ==
    LET names == BoundNames(func, args)
        KeyErr == Err(PyExc("KeyError", "argument name"))
        IndexErr == Err(PyExc("IndexError", "tuple index out of range"))
    IN  IF IsStr(shapes_in)
          THEN IF shapes_in.s \in DOMAIN args THEN Ok(<<shapes_in.s>>) ELSE KeyErr
        ELSE IF IsIndex(shapes_in)
          THEN IF IntOf(shapes_in) < Len(names)
                 THEN Ok(<<names[IntOf(shapes_in) + 1]>>) ELSE IndexErr
        ELSE IF IsSequence(shapes_in)
          THEN LET items == SeqItems(shapes_in)
               IN  IF AllStr(items)
                     THEN IF \A i \in DOMAIN items : items[i].s \in DOMAIN args
                            THEN Ok([i \in DOMAIN items |-> items[i].s]) ELSE KeyErr
                   ELSE IF AllIndex(items)
                     THEN IF \A i \in DOMAIN items : IntOf(items[i]) < Len(names)
                            THEN Ok([i \in DOMAIN items |-> names[IntOf(items[i]) + 1]])
                            ELSE IndexErr
                   ELSE Err(PyExc("TypeError",
                                  "shapes_in values must all be str or positive int"))
        ELSE IF shapes_in = PyNone THEN Ok(<<>>)
        ELSE Err(PyExc("TypeError",
                       "shapes_in must be either a str, a positive int, a sequence of str's, a sequence of positive int's or None"))

\* res of line 803: a result that is not a Sequence becomes a 1-tuple
AsResults(orig_res) == IF IsSequence(orig_res) THEN SeqItems(orig_res) ELSE <<orig_res>>

\* _res_shapes: the shapes of the outputs that shapes_out selects (lines 807-829)
ParseShapesOut(shapes_out, res) ==
    LET IndexErr == Err(PyExc("IndexError", "tuple index out of range"))
    IN  IF IsIndex(shapes_out)
          THEN IF IntOf(shapes_out) < Len(res)
                 THEN Ok(<<res[IntOf(shapes_out) + 1].shape>>) ELSE IndexErr
        ELSE IF IsSequence(shapes_out) /\ AllIndex(SeqItems(shapes_out))
          THEN LET items == SeqItems(shapes_out)
               IN  IF \A i \in DOMAIN items : IntOf(items[i]) < Len(res)
                     THEN Ok([i \in DOMAIN items |-> res[IntOf(items[i]) + 1].shape])
                     ELSE IndexErr
        ELSE IF shapes_out = PyStr("all") THEN Ok([i \in DOMAIN res |-> res[i].shape])
        ELSE IF shapes_out = PyNone THEN Ok(<<>>)
        ELSE Err(PyExc("TypeError",
                       "shapes_out must be positive int, sequence of positive int, 'all' or None"))

\* lines 835-862: the outcome the raise_if_empty strategy gives for the tracked shapes
CheckEmpty(w, shapes, orig_res) ==
    LET overwritten == w.cfg.shapes_out = PyNone /\ w.cfg.raise_if_empty # PyNone
        strategy == IF overwritten THEN PyNone ELSE w.cfg.raise_if_empty
        logged == IF overwritten
                    THEN <<EvLog(<<"Overwriting raise_if_empty to None because shapes_out is None">>)>>
                    ELSE <<>>
        out == IF strategy = PyNone THEN Ret(orig_res)
               ELSE IF strategy = PyStr("any")
                 THEN IF \E i \in DOMAIN shapes : shapes[i][1] = 0
                        THEN Raise(PyExc("EmptyShapeError",
                                         <<"At least one result from", w.func.name, "is empty">>))
                        ELSE Ret(orig_res)
               ELSE IF strategy = PyStr("all")
                 THEN IF \A i \in DOMAIN shapes : shapes[i][1] = 0
                        THEN Raise(PyExc("EmptyShapeError",
                                         <<"All results from", w.func.name, "are empty">>))
                        ELSE Ret(orig_res)
               ELSE Raise(PyExc("TypeError",
                                "raise_if_empty must be either 'any', 'all' or None"))
    IN  [out |-> out, events |-> logged]

multi_shape_tracker_wrapper(w, pos, kw, script) ==
    LET b == PyBind(w.func.params, Required(w.func), FALSE, pos, kw)
    IN  IF ~b.ok THEN Done(Raise(b.err), <<>>, w.attrs)
        ELSE
        LET sin == ParseShapesIn(w.cfg.shapes_in, w.func, b.args)
        IN  IF ~sin.ok THEN Done(Raise(sin.err), <<>>, w.attrs)
            ELSE
            LET evIn == IF w.cfg.shapes_in # PyNone
                          THEN <<EvLog(<<"Input shapes:",
                                         [i \in DOMAIN sin.val |-> b.args[sin.val[i]].shape]>>)>>
                          ELSE <<>>
                o == script[1]
            IN  IF o.k = "raise" THEN Done(o, evIn \o <<EvCall>>, w.attrs)
                ELSE
                LET sout == ParseShapesOut(w.cfg.shapes_out, AsResults(o.val))
                IN  IF ~sout.ok THEN Done(Raise(sout.err), evIn \o <<EvCall>>, w.attrs)
                    ELSE
                    LET evOut == IF w.cfg.shapes_out # PyNone
                                   THEN <<EvLog(<<"Output shapes:", sout.val>>)>>
                                   ELSE <<>>
                        c == CheckEmpty(w, sout.val, o.val)
                    IN  Done(c.out, evIn \o <<EvCall>> \o evOut \o c.events, w.attrs)

(* shape_tracker's wrapper *)

\* v.shape
ShapeOf(v) ==
    IF v.t = "arr" THEN Ok(v.shape)
    ELSE Err(PyExc("AttributeError", "object has no attribute 'shape'"))

\* lines 652-657: the name of the argument arg_to_track selects among the supplied
\* ones, looked up by position or by name
TrackedArg(arg_to_track, func, args) ==
    LET names == BoundNames(func, args)
    IN  IF IsInt(arg_to_track)
          THEN IF IntOf(arg_to_track) < Len(names)
                 THEN Ok(names[IntOf(arg_to_track) + 1])
                 ELSE Err(PyExc("IndexError", "tuple index out of range"))
        ELSE IF arg_to_track.s \in DOMAIN args THEN Ok(arg_to_track.s)
        ELSE Err(PyExc("KeyError", arg_to_track.s))

\* tuple(d1 - d2 for d1, d2 in zip_longest(input_shape, output_shape, fillvalue=0))
ShapeDelta(input_shape, output_shape) ==
    [i \in 1..(IF Len(input_shape) > Len(output_shape)
                 THEN Len(input_shape) ELSE Len(output_shape)) |->
        (IF i <= Len(input_shape) THEN input_shape[i] ELSE 0)
        - (IF i <= Len(output_shape) THEN output_shape[i] ELSE 0)]

\* lines 646-680
shape_tracker_wrapper(w, pos, kw, script) ==
    LET b == PyBind(w.func.params, Required(w.func), FALSE, pos, kw)
    IN  IF ~b.ok THEN Done(Raise(b.err), <<>>, w.attrs)
        ELSE
        LET tracked == TrackedArg(w.cfg.arg_to_track, w.func, b.args)
        IN  IF ~tracked.ok THEN Done(Raise(tracked.err), <<>>, w.attrs)
            ELSE
            LET sin == ShapeOf(b.args[tracked.val])
                o == script[1]
            IN  IF w.cfg.shape_in = PyBool(TRUE) /\ ~sin.ok
                  THEN Done(Raise(sin.err), <<>>, w.attrs)
                ELSE
                LET evIn == IF w.cfg.shape_in = PyBool(TRUE)
                              THEN <<EvLog(<<"Input:", tracked.val, "has shape", sin.val>>)>>
                              ELSE <<>>
                IN  IF o.k = "raise" THEN Done(o, evIn \o <<EvCall>>, w.attrs)
                    ELSE
                    LET sout == ShapeOf(o.val)
                    IN  IF ~sout.ok THEN Done(Raise(sout.err), evIn \o <<EvCall>>, w.attrs)
                        ELSE
                        LET evOut == IF w.cfg.shape_out = PyBool(TRUE)
                                       THEN <<EvLog(<<"Output: result has shape", sout.val>>)>>
                                       ELSE <<>>
                            ev == evIn \o <<EvCall>> \o evOut
                        IN  IF w.cfg.shape_delta = PyBool(TRUE) /\ ~sin.ok
                              THEN Done(Raise(sin.err), ev, w.attrs)
                            ELSE
                            LET evDelta ==
                                    IF w.cfg.shape_delta = PyBool(TRUE)
                                      THEN <<EvLog(<<"Shape delta:",
                                                     ShapeDelta(sin.val, sout.val)>>)>>
                                      ELSE <<>>
                            IN  IF w.cfg.raise_if_empty = PyBool(TRUE) /\ sout.val[1] = 0
                                  THEN Done(Raise(PyExc("EmptyShapeError",
                                                        <<"Result from", w.func.name,
                                                          "is empty">>)),
                                            ev \o evDelta, w.attrs)
                                  ELSE Done(o, ev \o evDelta, w.attrs)

(* the wrappers that perform an effect around the call of the target *)

\* func(pos, kw) for a target whose body would do o: arguments that do not fit the
\* signature make the call itself raise TypeError, and the body does not run
CallTarget(func, pos, kw, o) ==
    LET b == PyBind(func.params, Required(func), FALSE, pos, kw)
    IN  IF b.ok THEN o ELSE Raise(PyExc("TypeError", <<func.name, b.err.msg>>))

\* the events of the call of the target: none when its body did not run
Ran(func, pos, kw) ==
    IF PyBind(func.params, Required(func), FALSE, pos, kw).ok THEN <<EvCall>> ELSE <<>>

\* chime.error() left out and the exception swallowed
chime_on_end_wrapper_quiet(w, pos, kw, script) ==
    LET o == CallTarget(w.func, pos, kw, script[1])
    IN  IF o.k = "return" THEN Done(o, Ran(w.func, pos, kw) \o <<EvChime("success")>>, w.attrs)
        ELSE IF ~IsException(o.exc) THEN Done(o, Ran(w.func, pos, kw), w.attrs)
        ELSE Done(Ret(PyNone), Ran(w.func, pos, kw), w.attrs)

chime_on_end_wrapper(w, pos, kw, script) ==
    LET o == CallTarget(w.func, pos, kw, script[1])
    IN  IF o.k = "return" THEN Done(o, Ran(w.func, pos, kw) \o <<EvChime("success")>>, w.attrs)
        ELSE IF ~IsException(o.exc) THEN Done(o, Ran(w.func, pos, kw), w.attrs)
        ELSE Done(reraise(o.exc), Ran(w.func, pos, kw) \o <<EvChime("error")>>, w.attrs)

\* log_string: the name of the target and the optional strings that are not None
log_string(w, args, o) ==
    LET caught == o.k = "raise" /\ IsException(o.exc)
        timed  == (o.k = "return" \/ caught) /\ w.cfg.log_time = PyBool(TRUE)
    IN  <<w.func.name>>
        \o (IF w.cfg.log_args = PyBool(TRUE) THEN <<"args", args>> ELSE <<>>)
        \o (IF timed THEN <<"time">> ELSE <<>>)
        \o (IF caught THEN <<"Failed">> ELSE <<>>)
        \o (IF caught /\ w.cfg.log_error = PyBool(TRUE) THEN <<"with error", o.exc.msg>> ELSE <<>>)

log_wrapper(w, pos, kw, script) ==
    LET b == PyBind(w.func.params, Required(w.func), FALSE, pos, kw)
    IN  IF w.cfg.log_args = PyBool(TRUE) /\ ~b.ok THEN Done(Raise(b.err), <<>>, w.attrs)
        ELSE LET o == CallTarget(w.func, pos, kw, script[1])
                 msg == log_string(w, IF b.ok THEN b.args ELSE <<>>, o)
                 written == IF w.cfg.log_file # PyNone
                              THEN <<EvWrite(w.cfg.log_file, msg)>> ELSE <<>>
             IN  Done(o, Ran(w.func, pos, kw) \o <<EvLog(msg)>> \o written, w.attrs)

notify_on_end_wrapper(w, pos, kw, script) ==
    Done(CallTarget(w.func, pos, kw, script[1]), Ran(w.func, pos, kw) \o <<EvNotify>>, w.attrs)

\* wrapper(pos, kw): the call of a wrapper, by the factory that built it
WrapperCall(w, pos, kw, script) ==
    CASE w.factory = "call_counter" -> call_counter_wrapper(w, pos, kw, script)
      [] w.factory = "catch" -> catch_wrapper(w, pos, kw, script)
      [] w.factory = "check_args" -> check_args_wrapper(w, pos, kw, script)
      [] w.factory = "retry" -> retry_wrapper(w, pos, kw, script)
      [] w.factory = "multi_shape_tracker" -> multi_shape_tracker_wrapper(w, pos, kw, script)
      [] w.factory = "log" -> log_wrapper(w, pos, kw, script)
      [] w.factory = "chime_on_end" -> chime_on_end_wrapper(w, pos, kw, script)
      [] w.factory = "notify_on_end" -> notify_on_end_wrapper(w, pos, kw, script)
      [] w.factory = "shape_tracker" -> shape_tracker_wrapper(w, pos, kw, script)

(* memory_limit's wrapper, in the two steps between which the target executes *)

\* resource.setrlimit(resource.RLIMIT_AS, (soft, hard))
setrlimit(proc, soft, hard) == [proc EXCEPT !.rlimit = [soft |-> soft, hard |-> hard]]

\* int(free_memory * percentage)
Fraction(free_memory, percentage) == (free_memory * percentage.hundredths) \div 100

\* the limit left as it was on entry: setrlimit not called before the target runs
memory_limit_enter_unbounded(proc, w, free_kb) ==
    [os |-> proc,
     events |-> <<>>,
     locals |-> [hard |-> proc.rlimit.hard, free_memory |-> free_kb * 1024]]

\* from the entry of the wrapper to the call of func: lines 414-421.  free_kb is
\* what _get_free_memory() reads from /proc/meminfo.
memory_limit_enter(proc, w, free_kb) ==
    LET hard == proc.rlimit.hard
        free_memory == free_kb * 1024
        limit == Fraction(free_memory, w.cfg.percentage)
    IN  [os |-> setrlimit(proc, limit, hard),
         events |-> <<EvLog(<<"Setting memory limit for", w.func.name, "to", limit>>)>>,
         locals |-> [hard |-> hard, free_memory |-> free_memory]]

\* from the end of func to the end of the wrapper: lines 424-430, the target having
\* done o
memory_limit_exit(proc, w, locals, o) ==
    [os |-> setrlimit(proc, locals.free_memory, locals.hard),
     out |-> IF o.k = "raise" /\ o.exc.type = "MemoryError"
               THEN Raise(PyExc("MemoryError", "Reached memory limit"))
               ELSE o]

\* An outcome of the target together with the seconds its execution takes.
Lasting(o, seconds) == [dur |-> seconds] @@ o
\* The process ended by a signal whose disposition is the default one.
Killed(sig) == [k |-> "killed", sig |-> sig]

\* an alarm that alarm(0) does not cancel
alarm_never_cancels(proc, seconds) ==
    IF seconds = 0 THEN proc ELSE [proc EXCEPT !.alarm = seconds]

\* signal.alarm(seconds): 0 cancels the pending alarm
alarm(proc, seconds) == [proc EXCEPT !.alarm = seconds]

\* the alarm going off only once the target has run for longer than the limit
Expires_late(time_limit, o) == time_limit > 0 /\ o.dur > time_limit

\* the alarm armed by timeout's wrapper goes off while the target is still executing
Expires(time_limit, o) == time_limit > 0 /\ o.dur >= time_limit

\* the alarm that was pending on entry left in place on exit
timeout_wrapper_restoring(w, pos, kw, script, proc) ==
    LET time_limit == IntOf(w.cfg.time_limit)
        fits == PyBind(w.func.params, Required(w.func), FALSE, pos, kw).ok
        o == CallTarget(w.func, pos, kw, script[1])
        expires == fits /\ Expires(time_limit, script[1])
        handler == proc.handlers[SigOf(SIGALRM)]
        set == alarm(proc, time_limit)
        armed == <<EvAlarm(time_limit)>> \o Ran(w.func, pos, kw)
    IN  IF ~expires
          THEN Done(o, armed \o <<EvAlarm(0)>>, w.attrs) @@ [os |-> proc]
        ELSE IF handler = SIG_DFL
          THEN Done(Killed(SigOf(SIGALRM)), armed \o <<EvSignal(SigOf(SIGALRM))>>, w.attrs)
               @@ [os |-> proc]
        ELSE IF handler.raises # NoError
          THEN Done(Raise(handler.raises),
                    armed \o <<EvSignal(SigOf(SIGALRM)), EvAlarm(0)>>, w.attrs)
               @@ [os |-> proc]
        ELSE Done(o, armed \o <<EvSignal(SigOf(SIGALRM)), EvAlarm(0)>>, w.attrs)
             @@ [os |-> proc]

\* timeout's wrapper, called in a process in state proc.  When the alarm goes off
\* the handler bound to SIGALRM runs inside the target: what it raises unwinds the
\* target, and when it returns the target carries on.
timeout_wrapper(w, pos, kw, script, proc) ==
    LET time_limit == IntOf(w.cfg.time_limit)
        fits == PyBind(w.func.params, Required(w.func), FALSE, pos, kw).ok
        o == CallTarget(w.func, pos, kw, script[1])
        expires == fits /\ Expires(time_limit, script[1])
        handler == proc.handlers[SigOf(SIGALRM)]
        set == alarm(proc, time_limit)
        armed == <<EvAlarm(time_limit)>> \o Ran(w.func, pos, kw)
    IN  IF ~expires
          THEN Done(o, armed \o <<EvAlarm(0)>>, w.attrs) @@ [os |-> alarm(set, 0)]
        ELSE IF handler = SIG_DFL
          THEN Done(Killed(SigOf(SIGALRM)), armed \o <<EvSignal(SigOf(SIGALRM))>>, w.attrs)
               @@ [os |-> alarm(set, 0)]
        ELSE IF handler.raises # NoError
          THEN Done(Raise(handler.raises),
                    armed \o <<EvSignal(SigOf(SIGALRM)), EvAlarm(0)>>, w.attrs)
               @@ [os |-> alarm(set, 0)]
        ELSE Done(o, armed \o <<EvSignal(SigOf(SIGALRM)), EvAlarm(0)>>, w.attrs)
             @@ [os |-> alarm(set, 0)]

\* wrapper(pos, kw) in a process in state proc: the result of the call and the
\* state it leaves the process in
ProcessCall(proc, w, pos, kw, script) ==
    IF w.factory = "timeout" THEN timeout_wrapper(w, pos, kw, script, proc)
    ELSE WrapperCall(w, pos, kw, script) @@ [os |-> proc]

\* how many times the call invoked the target
TargetCalls(events) == Cardinality({i \in DOMAIN events : events[i] = EvCall})


-----------------------------------------------------------------------------
(* Inputs: the targets, their outcomes, the values given to the options *)

\* def add(a, b): return a + b
Add == Target("add", <<"a", "b">>, <<>>)
\* def scale(a, b=1): return a * b
Scale == Target("scale", <<"a", "b">>, [b |-> PyInt(1)])
Targets == {Add, Scale}

ErrType == PyExc("TypeError", "unsupported operand type(s)")
ErrValue == PyExc("ValueError", "bad value")
ErrInterrupt == PyExc("KeyboardInterrupt", "")

\* what one invocation of a target can do
Outcomes == {Ret(PyInt(3)), Ret(PyNone), Raise(ErrType), Raise(ErrValue), Raise(ErrInterrupt)}

\* the keyword configurations over the options in opts, cand[o] being the values
\* tried for option o
Configs(opts, cand) ==
    UNION {{m \in [S -> UNION {cand[o] : o \in S}] : \A o \in S : m[o] \in cand[o]} :
           S \in SUBSET opts}

-----------------------------------------------------------------------------
(* The state machine: decorate a target, then call the wrapper *)

Init ==
    /\ wrapper = NoWrapper
    /\ decor_err = NoError
    /\ invocations = 0
    /\ runs = 0
    /\ last = NoCall
    /\ decor = NoCall
    /\ d_in = NoCall
    /\ d_res = <<>>
    /\ d_out = <<>>
    /\ d_def = <<>>
    /\ os = ProcessStart
    /\ threads = [t \in Threads |-> Idle]
    /\ heap = <<>>

\* wrapper = factory(target, **kw), through the dispatcher
Decorate(f, target, kw) ==
    /\ decor = NoCall
    /\ LET r == check_parens(f, <<target>>, kw)
       IN  /\ wrapper' = IF r.k = "return" THEN r.val ELSE NoWrapper
           /\ decor_err' = IF r.k = "raise" THEN r.exc ELSE NoError
           /\ os' = FactoryEffect(os, r)
    /\ decor' = [factory |-> f, target |-> target, kw |-> kw]
    /\ UNCHANGED <<heap, invocations, runs, last, d_in, d_res, d_out, d_def, threads>>

\* wrapper(pos, kw), the target behaving as script says
Invoke(pos, kw, script) ==
    /\ wrapper # NoWrapper
    /\ invocations < MaxInvocations
    /\ IF last = NoCall THEN TRUE ELSE last.out.k # "killed"
    /\ LET r == ProcessCall(os, wrapper, pos, kw, script)
       IN  /\ wrapper' = [wrapper EXCEPT !.attrs = r.attrs]
           /\ os' = r.os
           /\ runs' = runs + TargetCalls(r.events)
           /\ last' = [pos |-> pos, kw |-> kw, script |-> script,
                       out |-> r.out, events |-> r.events]
    /\ invocations' = invocations + 1
    /\ UNCHANGED <<heap, decor_err, decor, d_in, d_res, d_out, d_def, threads>>

(* call_counter *)

SeedValues == {PyInt(n) : n \in (-MaxSeed)..MaxSeed} \cup {PyBool(TRUE), PyFloat(110), PyStr("a")}

CounterConfigs ==
    Configs({"seed", "log_counter", "logging_fn"},
            [seed |-> SeedValues,
             log_counter |-> {PyBool(TRUE), PyBool(FALSE), PyInt(1)},
             logging_fn |-> {PyFn("print"), PyStr("a")}])

CounterDecorate == \E kw \in CounterConfigs : Decorate("call_counter", Add, kw)

CounterInvoke == \E o \in Outcomes : Invoke(<<PyInt(1), PyInt(2)>>, <<>>, <<o>>)

NextCounter == CounterDecorate \/ CounterInvoke

SpecCounter == Init /\ [][NextCounter]_vars

(* retry *)

RetryConfigs ==
    Configs({"n_tries", "delay"},
            [n_tries |-> {PyInt(n) : n \in 0..MaxTries} \cup {PyFloat(50)},
             delay |-> {PyFloat(10), PyInt(-2)}])

\* what one attempt can do
RetryOutcomes == {Ret(PyInt(3)), Raise(ErrType), Raise(ErrValue), Raise(ErrInterrupt)}

RetryDecorate == \E kw \in RetryConfigs : Decorate("retry", Add, kw)

\* the target's outcome on each of the attempts the wrapper can make
RetryInvoke ==
    /\ wrapper # NoWrapper
    /\ \E script \in [1..IntOf(wrapper.cfg.n_tries) -> RetryOutcomes] :
          Invoke(<<PyInt(1), PyInt(2)>>, <<>>, script)

NextRetry == RetryDecorate \/ RetryInvoke

SpecRetry == Init /\ [][NextRetry]_vars

(* catch *)

CatchConfigs ==
    Configs({"return_on_exception", "raise_on_exception", "logging_fn"},
            [return_on_exception |-> {PyNone, PyInt(-999), PyInt(0), PyStr("")},
             raise_on_exception |-> {PyNone, PyExcClass("ValueError"),
                                     PyExc("RuntimeError", "custom")},
             logging_fn |-> {PyFn("print"), PyStr("a")}])

CatchDecorate == \E kw \in CatchConfigs : Decorate("catch", Add, kw)

CatchInvoke == \E o \in Outcomes : Invoke(<<PyInt(1), PyInt(2)>>, <<>>, <<o>>)

NextCatch == CatchDecorate \/ CatchInvoke

SpecCatch == Init /\ [][NextCatch]_vars

(* check_args *)

Rules == {PyPred("gt", 0), PyPred("lt", 2)}

CheckArgsConfigs ==
    Configs({"a", "b"}, [a |-> Rules \cup {PyBool(TRUE)}, b |-> Rules \cup {PyStr("test")}])

\* def shift(a, b=3): return a + b
Shift == Target("shift", <<"a", "b">>, [b |-> PyInt(3)])

CheckArgsDecorate ==
    \E target \in Targets \cup {Shift}, kw \in CheckArgsConfigs :
        Decorate("check_args", target, kw)

ArgValues == {PyInt(-1), PyInt(1), PyInt(3)}

\* the ways of passing a and b: positionally, by keyword, or b left out
CallShapes ==
    {[pos |-> <<a, b>>, kw |-> <<>>] : a \in ArgValues, b \in ArgValues}
    \cup {[pos |-> <<a>>, kw |-> [b |-> b]] : a \in ArgValues, b \in ArgValues}
    \cup {[pos |-> <<>>, kw |-> [a |-> a, b |-> b]] : a \in ArgValues, b \in ArgValues}
    \cup {[pos |-> <<a>>, kw |-> <<>>] : a \in ArgValues}

CheckArgsInvoke ==
    \E c \in CallShapes, o \in {Ret(PyInt(3)), Raise(ErrType)} : Invoke(c.pos, c.kw, <<o>>)

NextCheckArgs == CheckArgsDecorate \/ CheckArgsInvoke

SpecCheckArgs == Init /\ [][NextCheckArgs]_vars


(* multi_shape_tracker *)

Arr12 == PyArr(<<1, 2>>)
Arr02 == PyArr(<<0, 2>>)

ShapeConfigs ==
    Configs({"shapes_in", "shapes_out", "raise_if_empty"},
            [shapes_in |-> {PyNone, PyStr("a"), PyInt(1), PyTuple(<<PyStr("a"), PyStr("b")>>),
                            PyFloat(110), PyTuple(<<PyStr("a"), PyInt(1)>>)},
             shapes_out |-> {PyStr("all"), PyInt(1), PyTuple(<<PyInt(0), PyInt(1)>>), PyNone,
                             PyFloat(110), PyStr("a"), PyTuple(<<>>)},
             raise_if_empty |-> {PyStr("any"), PyStr("all"), PyNone, PyFloat(110)}])

ShapeDecorate == \E kw \in ShapeConfigs : Decorate("multi_shape_tracker", Add, kw)

\* what a target of array-likes can do: return one array, a tuple of arrays (of
\* none, too), or raise
ShapeOutcomes ==
    {Ret(Arr12), Ret(PyTuple(<<Arr12, Arr02>>)), Ret(PyTuple(<<Arr02, Arr02>>)),
     Ret(PyTuple(<<>>)), Raise(ErrValue)}

ShapeInvoke == \E o \in ShapeOutcomes : Invoke(<<Arr12, Arr02>>, <<>>, <<o>>)

NextShapes == ShapeDecorate \/ ShapeInvoke

SpecShapes == Init /\ [][NextShapes]_vars

(* the dispatcher: one factory, target and configuration, applied in every form *)

\* an option no factory declares
Bogus == [bogus |-> {PyInt(1)}]

DispatchConfigs(f) ==
    CASE f = "call_counter" ->
            Configs({"seed", "log_counter", "bogus"},
                    [seed |-> {PyInt(2), PyStr("a")}, log_counter |-> {PyBool(FALSE)}] @@ Bogus)
      [] f = "catch" ->
            Configs({"return_on_exception", "raise_on_exception", "bogus"},
                    [return_on_exception |-> {PyInt(-999)},
                     raise_on_exception |-> {PyExcClass("ValueError")}] @@ Bogus)
      [] f = "check_args" ->
            Configs({"a", "b"}, [a |-> {PyPred("gt", 0)}, b |-> {PyPred("lt", 2), PyStr("test")}])
      [] f = "retry" ->
            Configs({"n_tries", "delay", "bogus"},
                    [n_tries |-> {PyInt(2), PyInt(0)}, delay |-> {PyFloat(10)}] @@ Bogus)
      [] f = "multi_shape_tracker" ->
            Configs({"shapes_out", "raise_if_empty", "bogus"},
                    [shapes_out |-> {PyInt(0), PyFloat(110)},
                     raise_if_empty |-> {PyStr("all")}] @@ Bogus)

\* the arguments and the target behaviours each factory's wrappers are called with
DispatchArgs(f) ==
    IF f = "multi_shape_tracker" THEN {<<Arr12, Arr02>>}
    ELSE {<<PyInt(1), PyInt(3)>>, <<PyInt(-1), PyInt(1)>>}

DispatchScripts(f) ==
    [1..IntOf(FactoryDefaults("retry").n_tries) ->
        IF f = "multi_shape_tracker" THEN {Ret(Arr02), Raise(ErrValue)}
        ELSE {Ret(PyInt(3)), Raise(ErrType)}]

Forms == {"bare", "parens", "configured", "immediate", "plain", "defaults", "direct"}

DispatchChoose ==
    /\ d_in = NoCall
    /\ \E f \in Factories, target \in Targets :
          \E kw \in DispatchConfigs(f) :
              d_in' = [factory |-> f, target |-> target, kw |-> kw]
    /\ UNCHANGED <<heap, wrapper, decor_err, invocations, runs, last, decor, d_res, d_out, d_def, os, threads>>

\* record what a calling form produced
Produce(form, r) ==
    /\ d_in # NoCall
    /\ form \notin DOMAIN d_res
    /\ d_out = <<>>
    /\ d_res' = (form :> r) @@ d_res
    /\ UNCHANGED <<heap, wrapper, decor_err, invocations, runs, last, decor, d_in, d_out, d_def, os, threads>>

\* @decorator
DecorateBare == Produce("bare", check_parens(d_in.factory, <<d_in.target>>, <<>>))

\* @decorator()
DecorateParens ==
    Produce("parens", ApplyDeferred(check_parens(d_in.factory, <<>>, <<>>), d_in.target))

\* @decorator(**config)
DecorateConfigured ==
    Produce("configured", ApplyDeferred(check_parens(d_in.factory, <<>>, d_in.kw), d_in.target))

\* decorator(target, **config)
DecorateImmediate ==
    Produce("immediate", check_parens(d_in.factory, <<d_in.target>>, d_in.kw))

\* factory(target), the factory function itself
ApplyPlain == Produce("plain", FactoryCall(d_in.factory, <<d_in.target>>, <<>>))

\* factory(target, **defaults), every option given its declared default
ApplyDefaults ==
    Produce("defaults",
            FactoryCall(d_in.factory, <<d_in.target>>,
                        Restrict(FactoryDefaults(d_in.factory),
                                 (DOMAIN FactoryDefaults(d_in.factory)) \ {"func"})))

\* factory(target, **config)
ApplyDirect == Produce("direct", FactoryCall(d_in.factory, <<d_in.target>>, d_in.kw))

\* every wrapper produced is called once, with the same arguments, the target
\* behaving the same way
DispatchInvoke ==
    /\ d_in # NoCall
    /\ DOMAIN d_res = Forms
    /\ d_out = <<>>
    /\ \E pos \in DispatchArgs(d_in.factory), script \in DispatchScripts(d_in.factory) :
          d_out' = [form \in Forms |->
                       IF d_res[form].k = "return"
                         THEN WrapperCall(d_res[form].val, pos, <<>>, script)
                         ELSE NoCall]
    /\ UNCHANGED <<heap, wrapper, decor_err, invocations, runs, last, decor, d_in, d_res, d_def, os, threads>>

NextDispatch ==
    \/ DispatchChoose
    \/ DecorateBare
    \/ DecorateParens
    \/ DecorateConfigured
    \/ DecorateImmediate
    \/ ApplyPlain
    \/ ApplyDefaults
    \/ ApplyDirect
    \/ DispatchInvoke

SpecDispatch == Init /\ [][NextDispatch]_vars

(* the deferred forms: the configuration given first, the target afterwards *)

\* the options of a factory in the order of its signature, func left out
Options(f) == Tail(FactoryParams(f))

\* how many leading options of f the configuration kw gives a value to
LeadingGiven(f, kw) ==
    CHOOSE n \in 0..Len(Options(f)) :
        /\ \A i \in 1..n : Options(f)[i] \in DOMAIN kw
        /\ n < Len(Options(f)) => Options(f)[n + 1] \notin DOMAIN kw

\* the configuration kw with its leading options passed positionally
PositionalArgs(f, kw) == [i \in 1..LeadingGiven(f, kw) |-> kw[Options(f)[i]]]
KeywordRest(f, kw) ==
    Restrict(kw, (DOMAIN kw) \ {Options(f)[i] : i \in 1..LeadingGiven(f, kw)})

\* record what a deferred form produced
Record(form, r) ==
    /\ d_in # NoCall
    /\ form \notin DOMAIN d_def
    /\ d_def' = (form :> r) @@ d_def
    /\ UNCHANGED <<heap, wrapper, decor_err, invocations, runs, last, decor, d_in, d_res, d_out,
                   os, threads>>

\* decorator(**config), not yet applied to a target
DeferConfigured == Record("deferred", check_parens(d_in.factory, <<>>, d_in.kw))

\* decorator(None, *config_args, **config_kwargs)(target)
DeferPositional ==
    Record("positional",
           ApplyDeferred(check_parens(d_in.factory,
                                      <<PyNone>> \o PositionalArgs(d_in.factory, d_in.kw),
                                      KeywordRest(d_in.factory, d_in.kw)),
                         d_in.target))

\* factory(target, *config_args, **config_kwargs)
ApplyPositional ==
    Record("positional_direct",
           FactoryCall(d_in.factory,
                       <<d_in.target>> \o PositionalArgs(d_in.factory, d_in.kw),
                       KeywordRest(d_in.factory, d_in.kw)))

NextDeferred ==
    \/ DispatchChoose
    \/ DeferConfigured
    \/ DeferPositional
    \/ ApplyPositional
    \/ DecorateConfigured
    \/ ApplyDirect

SpecDeferred == Init /\ [][NextDeferred]_vars

(* shape_tracker *)

TrackerConfigs ==
    Configs({"shape_in", "shape_delta", "raise_if_empty", "arg_to_track"},
            [shape_in |-> {PyBool(TRUE), PyBool(FALSE)},
             shape_delta |-> {PyBool(TRUE), PyBool(FALSE)},
             raise_if_empty |-> {PyBool(FALSE), PyInt(1)},
             arg_to_track |-> {PyInt(0), PyInt(1), PyInt(2), PyStr("b"), PyStr("z"),
                               PyInt(-1), PyNone}])

TrackerDecorate == \E kw \in TrackerConfigs : Decorate("shape_tracker", Add, kw)

\* add(a, b) on two arrays, or on one only; the target returns an array, something
\* without a shape, or raises
TrackerInvoke ==
    \E pos \in {<<Arr12, Arr02>>, <<Arr12>>},
       o \in {Ret(Arr12), Ret(Arr02), Ret(PyInt(3)), Raise(ErrValue)} :
        Invoke(pos, <<>>, <<o>>)

NextTracker == TrackerDecorate \/ TrackerInvoke

SpecTracker == Init /\ [][NextTracker]_vars

(* log, chime_on_end, notify_on_end *)

EffectConfigs(f) ==
    CASE f = "log" ->
            Configs({"log_time", "log_args", "log_error", "log_file"},
                    [log_time |-> {PyBool(TRUE), PyBool(FALSE), PyFloat(110)},
                     log_args |-> {PyBool(TRUE), PyBool(FALSE)},
                     log_error |-> {PyBool(TRUE), PyBool(FALSE)},
                     log_file |-> {PyStr("test.txt"), PyFloat(110)}])
      [] f = "chime_on_end" -> Configs({"theme"}, [theme |-> {PyStr("mario"), PyStr("zelda")}])
      [] f = "notify_on_end" ->
            Configs({"notifier"},
                    [notifier |-> {PyNotifier("TestNotifier"), PyObject("TestNotNotifier")}])

EffectDecorate ==
    \E f \in {"log", "chime_on_end", "notify_on_end"} :
        \E kw \in EffectConfigs(f) : Decorate(f, Add, kw)

\* add(1, 2), and add(1), which does not fit add's signature
EffectCalls == {<<PyInt(1), PyInt(2)>>, <<PyInt(1)>>}

EffectInvoke == \E pos \in EffectCalls, o \in Outcomes : Invoke(pos, <<>>, <<o>>)

NextEffects == EffectDecorate \/ EffectInvoke

SpecEffects == Init /\ [][NextEffects]_vars

(* timeout *)

\* a handler that keeps to its documented contract, one that returns normally
RaisingHandler == PyHandler("custom_handler", PyExc("TimeoutError", "custom"))
QuietHandler == PyHandler("quiet_handler", NoError)

TimeoutConfigs ==
    Configs({"time_limit", "signal_handler", "signum"},
            [time_limit |-> {PyInt(n) : n \in (-1)..MaxSeconds} \cup {PyFloat(100)},
             signal_handler |-> {RaisingHandler, QuietHandler, PyStr("a")},
             signum |-> {PyInt(1), PyStr("a")}])

TimeoutDecorate == \E kw \in TimeoutConfigs : Decorate("timeout", Add, kw)

\* a target that takes d seconds and then returns or raises
TimeoutInvoke ==
    \E d \in 0..MaxSeconds, o \in {Ret(PyInt(3)), Raise(ErrType)} :
        Invoke(<<PyInt(1), PyInt(2)>>, <<>>, <<Lasting(o, d)>>)

NextTimeout == TimeoutDecorate \/ TimeoutInvoke

SpecTimeout == Init /\ [][NextTimeout]_vars

(* call_counter, called from two threads *)

\* thread t loads wrapper._calls
CounterLoad(t) ==
    /\ wrapper # NoWrapper
    /\ wrapper.factory = "call_counter"
    /\ threads[t].pc = "idle"
    /\ threads' = [threads EXCEPT ![t] = [pc |-> "loaded", loaded |-> call_counter_load(wrapper),
                                          overtaken |-> FALSE]]
    /\ UNCHANGED <<heap, wrapper, decor_err, invocations, runs, last, decor, d_in, d_res, d_out,
                   d_def, os>>

\* thread t stores the incremented value; a thread that loaded before this store
\* and has not stored yet now holds a stale value
CounterStore(t) ==
    /\ threads[t].pc = "loaded"
    /\ wrapper' = call_counter_store(wrapper, threads[t].loaded)
    /\ threads' = [u \in Threads |->
                      IF u = t THEN [threads[t] EXCEPT !.pc = "stored"]
                      ELSE IF threads[u].pc = "loaded"
                        THEN [threads[u] EXCEPT !.overtaken = TRUE]
                      ELSE threads[u]]
    /\ UNCHANGED <<heap, decor_err, invocations, runs, last, decor, d_in, d_res, d_out, d_def, os>>

\* thread t logs the counter, calls the target and leaves the wrapper
CounterFinish(t) ==
    /\ threads[t].pc = "stored"
    /\ \E o \in {Ret(PyInt(3)), Raise(ErrType)} :
          threads' = [threads EXCEPT ![t] = [threads[t] EXCEPT !.pc = "done"] @@ [out |-> o]]
    /\ runs' = runs + 1
    /\ invocations' = invocations + 1
    /\ UNCHANGED <<heap, wrapper, decor_err, last, decor, d_in, d_res, d_out, d_def, os>>

NextCounterRace ==
    \/ CounterDecorate
    \/ \E t \in Threads : CounterLoad(t)
    \/ \E t \in Threads : CounterStore(t)
    \/ \E t \in Threads : CounterFinish(t)

SpecCounterRace == Init /\ [][NextCounterRace]_vars

(* memory_limit, called from two threads *)

MemoryConfigs ==
    Configs({"percentage"}, [percentage |-> {PyFloat(50), PyFloat(100), PyFloat(150), PyInt(1)}])

MemoryDecorate == \E kw \in MemoryConfigs : Decorate("memory_limit", Add, kw)

\* the kilobytes _get_free_memory() can find free
FreeMemory == {2, 4}

ErrMemory == PyExc("MemoryError", "")
MemoryOutcomes == {Ret(PyInt(3)), Raise(ErrMemory), Raise(ErrValue)}

\* the threads inside the wrapper learn that another thread has acted
Disturb(t) ==
    [u \in Threads |->
        IF u # t /\ threads[u].pc = "running"
          THEN [threads[u] EXCEPT !.disturbed = TRUE]
          ELSE threads[u]]

\* thread t calls the wrapper and gets as far as the call of the target
MemoryEnter(t) ==
    /\ wrapper # NoWrapper
    /\ wrapper.factory = "memory_limit"
    /\ threads[t].pc = "idle"
    /\ \E free_kb \in FreeMemory :
          LET r == memory_limit_enter(os, wrapper, free_kb)
          IN  /\ os' = r.os
              /\ threads' = [Disturb(t) EXCEPT ![t] =
                                [pc |-> "running", locals |-> r.locals, before |-> os.rlimit,
                                 bound |-> Fraction(r.locals.free_memory, wrapper.cfg.percentage),
                                 quiet |-> \A u \in Threads \ {t} : threads[u].pc = "idle",
                                 disturbed |-> FALSE]]
    /\ UNCHANGED <<heap, wrapper, decor_err, invocations, runs, last, decor, d_in, d_res, d_out, d_def>>

\* the target of thread t ends, and the wrapper with it
MemoryExit(t) ==
    /\ threads[t].pc = "running"
    /\ \E o \in MemoryOutcomes :
          LET r == memory_limit_exit(os, wrapper, threads[t].locals, o)
          IN  /\ os' = r.os
              /\ threads' = [Disturb(t) EXCEPT ![t] =
                                [threads[t] EXCEPT !.pc = "done"] @@ [out |-> r.out, did |-> o]]
    /\ runs' = runs + 1
    /\ UNCHANGED <<heap, wrapper, decor_err, invocations, last, decor, d_in, d_res, d_out, d_def>>

NextMemory ==
    \/ MemoryDecorate
    \/ \E t \in Threads : MemoryEnter(t)
    \/ \E t \in Threads : MemoryExit(t)

SpecMemory == Init /\ [][NextMemory]_vars

(* the names and docstrings that decorated callables report *)

\* a target defined with a docstring
Documented(func, doc) == func @@ [doc |-> PyStr(doc)]

\* the undecorated factory function f: its name, and f standing for its docstring
FactoryFn(f) == [name |-> f, doc |-> PyStr(f)]

\* check_parens(decorator), as introspection sees it: the dispatcher's inner
\* function after @wraps(decorator)
check_parens_identity(f) == wraps(FactoryFn(f), InnerWrapper)

IdentityTargets == {Add, Documented(Scale, "Multiply a by b")}

\* the configurations tried for each factory of the catalog
CatalogConfigs(f) ==
    IF f \in Factories THEN DispatchConfigs(f)
    ELSE IF f \in {"log", "chime_on_end", "notify_on_end"} THEN EffectConfigs(f)
    ELSE IF f = "timeout" THEN TimeoutConfigs
    ELSE IF f = "memory_limit" THEN MemoryConfigs
    ELSE TrackerConfigs

\* a factory of the catalog, as the module exports it, a target and a configuration
IdentityChoose ==
    /\ d_in = NoCall
    /\ \E f \in Catalog, target \in IdentityTargets :
          \E kw \in CatalogConfigs(f) :
              d_in' = [factory |-> f, target |-> target, kw |-> kw,
                       decorator |-> check_parens_identity(f)]
    /\ UNCHANGED <<heap, wrapper, decor_err, invocations, runs, last, decor, d_res, d_out, d_def,
                   os, threads>>

NextIdentity ==
    \/ IdentityChoose
    \/ DecorateBare
    \/ DecorateConfigured

SpecIdentity == Init /\ [][NextIdentity]_vars

(* callables by identity: several wrappers of one target, wrappers of wrappers *)

\* a reference to object i of the heap: the func a closure captured
Ref(i) == [t |-> "ref", id |-> i]

\* object i as the code holding a reference to it sees it now: its closure's func
\* followed, and the signature inspect.signature reports through __wrapped__
RECURSIVE View(_, _)
View(h, i) ==
    IF h[i].t # "wrapper" THEN h[i]
    ELSE LET inner == View(h, h[i].func.id)
         IN  [h[i] EXCEPT !.func = inner]
             @@ [params |-> inner.params, defaults |-> inner.defaults]

\* the function object that the def statement of a factory call creates: a new
\* object each time the factory's body runs, holding a reference to func.  via and
\* func_dict remember how it was made and what func's __dict__ was then.
New(h, r, i, via) ==
    Append(h, [r.val EXCEPT !.func = Ref(i)]
              @@ [via |-> via,
                  func_dict |-> IF h[i].t = "wrapper" THEN h[i].attrs ELSE <<>>])

\* the attribute kept once for all the wrappers of the same func
StoreAttrs_shared(h, i, attrs) ==
    [x \in DOMAIN h |->
        IF h[x].t = "wrapper" /\ h[x].func = h[i].func /\ h[x].factory = h[i].factory
          THEN [h[x] EXCEPT !.attrs = attrs]
          ELSE h[x]]

\* wrapper._calls += 1 sets the attribute on the wrapper object itself
StoreAttrs(h, i, attrs) == [h EXCEPT ![i].attrs = attrs]

\* the attributes of wrapper w after n calls of it, the target doing script[k] on
\* the k-th
RECURSIVE AfterCalls(_, _, _, _)
AfterCalls(w, pos, script, n) ==
    IF n = 0 THEN w.attrs
    ELSE WrapperCall([w EXCEPT !.attrs = AfterCalls(w, pos, script, n - 1)],
                     pos, <<>>, <<script[n]>>).attrs

\* a target, or a call_counter wrapper of a target
Wrappable(h, i) ==
    \/ h[i].t = "fn"
    \/ h[i].t = "wrapper" /\ h[i].factory = "call_counter" /\ h[h[i].func.id].t = "fn"

ObjectConfigs(f) ==
    IF f = "call_counter" THEN {[seed |-> PyInt(n)] : n \in {0, MaxSeed}}
    ELSE IF f = "retry" THEN {[n_tries |-> PyInt(n)] : n \in 1..MaxTries}
    ELSE {[return_on_exception |-> PyInt(-999)]}

\* def add(a, b)
ObjectDefine ==
    /\ heap = <<>>
    /\ heap' = <<Add>>
    /\ UNCHANGED <<wrapper, decor_err, invocations, runs, last, decor, d_in, d_res, d_out,
                   d_def, os, threads>>

\* factory(obj, **kw), obj being the target or a call_counter wrapper of it
ObjectDecorate ==
    /\ heap # <<>>
    /\ Len(heap) < MaxObjects
    /\ \E i \in DOMAIN heap, f \in {"call_counter", "retry", "catch"} :
          \E kw \in ObjectConfigs(f) :
              /\ Wrappable(heap, i)
              /\ LET r == check_parens(f, <<View(heap, i)>>, kw)
                 IN  /\ r.k = "return"
                     /\ heap' = New(heap, r, i, "direct")
    /\ UNCHANGED <<wrapper, decor_err, invocations, runs, last, decor, d_in, d_res, d_out,
                   d_def, os, threads>>

\* d = call_counter(seed=s), then d(target) twice
ObjectDecorateDeferred ==
    /\ heap # <<>>
    /\ Len(heap) + 2 <= MaxObjects
    /\ \E kw \in ObjectConfigs("call_counter") :
          LET d == check_parens("call_counter", <<>>, kw)
              first == New(heap, ApplyDeferred(d, View(heap, 1)), 1, "deferred")
          IN  heap' = New(first, ApplyDeferred(d, View(first, 1)), 1, "deferred")
    /\ UNCHANGED <<wrapper, decor_err, invocations, runs, last, decor, d_in, d_res, d_out,
                   d_def, os, threads>>

\* obj(1, 2) for a wrapper obj of the heap: the wrapper's attributes, and those of
\* the call_counter wrapper it calls, are updated where they live
ObjectInvoke ==
    /\ invocations < MaxInvocations
    /\ \E i \in DOMAIN heap :
          /\ heap[i].t = "wrapper"
          /\ \E script \in [1..MaxTries -> {Ret(PyInt(3)), Raise(ErrType)}] :
                LET pos == <<PyInt(1), PyInt(2)>>
                    r == WrapperCall(View(heap, i), pos, <<>>, script)
                    j == heap[i].func.id
                    n == TargetCalls(r.events)
                    mine == StoreAttrs(heap, i, r.attrs)
                IN  /\ heap' = IF heap[j].t = "wrapper"
                                 THEN StoreAttrs(mine, j, AfterCalls(View(heap, j), pos, script, n))
                                 ELSE mine
                    /\ last' = [obj |-> i, calls |-> n, before |-> heap, script |-> script,
                                out |-> r.out, events |-> r.events]
    /\ invocations' = invocations + 1
    /\ UNCHANGED <<wrapper, decor_err, runs, decor, d_in, d_res, d_out, d_def, os, threads>>

NextObjects ==
    \/ ObjectDefine
    \/ ObjectDecorate
    \/ ObjectDecorateDeferred
    \/ ObjectInvoke

SpecObjects == Init /\ [][NextObjects]_vars

(* timeout: several wrappers in one process, and a wrapped target that calls *)
(* another wrapper                                                           *)

\* the timeout wrappers of the heap
Timeouts == {i \in DOMAIN heap : heap[i].t = "wrapper" /\ heap[i].factory = "timeout"}

SignalConfigs ==
    {[time_limit |-> PyInt(n)] : n \in 1..MaxSeconds}
    \cup {[time_limit |-> PyInt(1), signum |-> PyInt(1)]}

\* def add(a, b) and def scale(a, b=1)
SignalDefine ==
    /\ heap = <<>>
    /\ heap' = <<Add, Scale>>
    /\ UNCHANGED <<wrapper, decor_err, invocations, runs, last, decor, d_in, d_res, d_out,
                   d_def, os, threads>>

\* timeout(target, **kw), for one of the two targets
SignalDecorate ==
    /\ heap # <<>>
    /\ Cardinality(Timeouts) < MaxObjects - 1
    /\ threads["t1"].pc = "idle"
    /\ invocations = 0
    /\ \E i \in {1, 2}, kw \in SignalConfigs :
          LET r == check_parens("timeout", <<View(heap, i)>>, kw)
          IN  /\ r.k = "return"
              /\ heap' = New(heap, r, i, "direct")
              /\ os' = FactoryEffect(os, r)
    /\ UNCHANGED <<wrapper, decor_err, invocations, runs, last, decor, d_in, d_res, d_out,
                   d_def, threads>>

\* the process is alive: no signal has ended it
Alive ==
    /\ IF last = NoCall THEN TRUE ELSE last.out.k # "killed"
    /\ IF threads["t1"].pc = "done" THEN threads["t1"].out.k # "killed" ELSE TRUE

\* obj(1, 2) for a timeout wrapper of the heap whose target takes d seconds and
\* calls no other wrapper
SignalInvoke ==
    /\ invocations < MaxInvocations
    /\ Alive
    /\ threads["t1"].pc \in {"idle", "done"}
    /\ \E i \in Timeouts, d \in 0..MaxSeconds, o \in {Ret(PyInt(3)), Raise(ErrType)} :
          LET script == <<Lasting(o, d)>>
              r == timeout_wrapper(View(heap, i), <<PyInt(1), PyInt(2)>>, <<>>, script, os)
          IN  /\ os' = r.os
              /\ last' = [obj |-> i, before |-> heap, script |-> script,
                          out |-> r.out, events |-> r.events]
    /\ invocations' = invocations + 1
    /\ UNCHANGED <<heap, wrapper, decor_err, runs, decor, d_in, d_res, d_out, d_def, threads>>

\* the alarm pending in proc goes off within the next d seconds
Fires(proc, d) == Expires(proc.alarm, [dur |-> d])

\* the process after d seconds in which no alarm went off
Elapse(proc, d) == IF proc.alarm > 0 THEN alarm(proc, proc.alarm - d) ELSE proc

\* SIGALRM delivered while a target executes inside a timeout wrapper: the handler
\* bound to it ends the process or raises into the target
Deliver(proc) ==
    IF proc.handlers[SigOf(SIGALRM)] = SIG_DFL THEN Killed(SigOf(SIGALRM))
    ELSE Raise(proc.handlers[SigOf(SIGALRM)].raises)

\* the call of wrapper outer ends with outcome out: finally signal.alarm(0)
OuterExit(out) ==
    /\ os' = alarm(os, 0)
    /\ threads' = [threads EXCEPT !["t1"] = [@ EXCEPT !.pc = "done"] @@ [out |-> out]]

\* outer(1, 2) is called, outer's target being a function that works for a while,
\* calls the wrapper inner, and works for a while again: signal.alarm(time_limit)
OuterEnter ==
    /\ Alive
    /\ threads["t1"].pc = "idle"
    /\ \E outer \in Timeouts, inner \in Timeouts :
          /\ outer # inner
          /\ os' = alarm(os, IntOf(heap[outer].cfg.time_limit))
          /\ threads' = [threads EXCEPT !["t1"] =
                            [pc |-> "before", outer |-> outer, inner |-> inner, ran |-> 0,
                             inner_returned |-> FALSE]]
    /\ UNCHANGED <<heap, wrapper, decor_err, invocations, runs, last, decor, d_in, d_res,
                   d_out, d_def>>

\* the outer target works for d seconds before it calls inner
OuterBefore ==
    /\ threads["t1"].pc = "before"
    /\ \E d \in 0..MaxSeconds :
          IF Fires(os, d)
            THEN OuterExit(Deliver(os))
            ELSE /\ os' = Elapse(os, d)
                 /\ threads' = [threads EXCEPT !["t1"].pc = "calling", !["t1"].ran = d]
    /\ UNCHANGED <<heap, wrapper, decor_err, invocations, runs, last, decor, d_in, d_res,
                   d_out, d_def>>

\* the outer target calls inner(1, 2), whose target takes d seconds; an error of
\* the inner call is not caught by the outer target
InnerCall ==
    /\ threads["t1"].pc = "calling"
    /\ \E d \in 0..MaxSeconds :
          LET r == timeout_wrapper(View(heap, threads["t1"].inner), <<PyInt(1), PyInt(2)>>,
                                   <<>>, <<Lasting(Ret(PyInt(3)), d)>>, os)
          IN  IF r.out.k = "return"
                THEN /\ os' = r.os
                     /\ threads' = [threads EXCEPT !["t1"].pc = "after",
                                                   !["t1"].ran = @ + d,
                                                   !["t1"].inner_returned = TRUE]
                ELSE /\ os' = alarm(r.os, 0)
                     /\ threads' = [threads EXCEPT !["t1"] =
                                       [@ EXCEPT !.pc = "done"] @@ [out |-> r.out]]
    /\ UNCHANGED <<heap, wrapper, decor_err, invocations, runs, last, decor, d_in, d_res,
                   d_out, d_def>>

\* the outer target works for d more seconds and returns
OuterAfter ==
    /\ threads["t1"].pc = "after"
    /\ \E d \in 0..MaxSeconds :
          IF Fires(os, d)
            THEN OuterExit(Deliver(os))
            ELSE /\ os' = alarm(Elapse(os, d), 0)
                 /\ threads' = [threads EXCEPT !["t1"] =
                                   [@ EXCEPT !.pc = "done", !.ran = @ + d]
                                   @@ [out |-> Ret(PyInt(3))]]
    /\ UNCHANGED <<heap, wrapper, decor_err, invocations, runs, last, decor, d_in, d_res,
                   d_out, d_def>>

NextSignals ==
    \/ SignalDefine
    \/ SignalDecorate
    \/ SignalInvoke
    \/ OuterEnter
    \/ OuterBefore
    \/ InnerCall
    \/ OuterAfter

SpecSignals == Init /\ [][NextSignals]_vars

-----------------------------------------------------------------------------
(* Properties *)

\* the value the decoration call gave to option o, or its declared default
Given(o) ==
    IF o \in DOMAIN decor.kw THEN decor.kw[o] ELSE FactoryDefaults(decor.factory)[o]

Built(f) == wrapper # NoWrapper /\ wrapper.factory = f
Called(f) == Built(f) /\ last # NoCall

\* the target fails: it raises an error that is an instance of Exception
Fails(o) == o.k = "raise" /\ IsException(o.exc)

\* two calling forms produced the same thing (the same closure, or the same error)
\* and, once called, their wrappers behaved the same
Same(f1, f2) ==
    /\ {f1, f2} \subseteq DOMAIN d_res => d_res[f1] = d_res[f2]
    /\ d_out # <<>> => d_out[f1] = d_out[f2]

\* C1: for every factory and target, the bare decorator dispatch(f)(t), the
\* empty-parens form dispatch(f)()(t), f(t) and f(t, **defaults) produce the same
\* wrapper, and a call of each behaves the same.
C1_BareFormsAgree ==
    /\ Same("bare", "plain")
    /\ Same("bare", "defaults")
    /\ Same("parens", "bare")

C1_Witness ==
    /\ d_out # <<>>
    /\ d_in.factory = "retry"
    /\ d_res["parens"].k = "return"
    /\ d_res["parens"].val.t = "wrapper"
    /\ d_res["parens"].val.cfg.n_tries = PyInt(3)
    /\ d_out["parens"].out = Ret(PyInt(3))
    /\ TargetCalls(d_out["parens"].events) = 3
    /\ d_out["plain"] = d_out["parens"]

\* C2: for every factory, keyword configuration and target, dispatch(f)(**config)(t)
\* is f(t, **config): the same wrapper, or the same configuration error.
C2_ConfiguredFormAgrees ==
    /\ Same("configured", "direct")
    /\ Same("configured", "immediate")

C2_Witness ==
    /\ d_out # <<>>
    /\ d_in.factory = "retry"
    /\ d_in.kw = [n_tries |-> PyInt(2), delay |-> PyFloat(10)]
    /\ d_res["configured"].k = "return"
    /\ d_res["configured"].val.cfg.n_tries = PyInt(2)
    /\ d_res["configured"] # d_res["bare"]
    /\ d_out["configured"].out.k = "raise"
    /\ TargetCalls(d_out["configured"].events) = 2
    /\ d_out["direct"] = d_out["configured"]

\* C3: between invocations of a call_counter wrapper created with seed s, _calls is
\* s plus the number of invocations made so far, whether they returned or raised;
\* before the first invocation it is s.
C3_CallsIsSeedPlusInvocations ==
    Built("call_counter") =>
        IntOf(wrapper.attrs["_calls"]) = IntOf(Given("seed")) + invocations

C3_Witness ==
    /\ Called("call_counter")
    /\ invocations = 2
    /\ last.out.k = "raise"
    /\ IntOf(Given("seed")) = -1
    /\ IntOf(wrapper.attrs["_calls"]) = 1

\* C4: retry with n_tries = k around a target that fails on every attempt invokes the
\* target exactly k times and then raises the error of the k-th attempt.
C4_AlwaysFailingTarget ==
    (Called("retry") /\ \A i \in DOMAIN last.script : Fails(last.script[i])) =>
        LET k == IntOf(Given("n_tries"))
        IN  /\ TargetCalls(last.events) = k
            /\ last.out = Raise(last.script[k].exc)

C4_Witness ==
    /\ Called("retry")
    /\ IntOf(Given("n_tries")) = 3
    /\ \A i \in DOMAIN last.script : Fails(last.script[i])
    /\ last.script[1] # last.script[3]
    /\ last.script[2] # last.script[3]
    /\ TargetCalls(last.events) = 3
    /\ last.out = last.script[3]

\* C5: retry with n_tries = k around a target that fails on attempts 1..j-1 and
\* succeeds on attempt j <= k invokes the target exactly j times and returns the
\* result of attempt j.
C5_SucceedsOnAttemptJ ==
    Called("retry") =>
        \A j \in DOMAIN last.script :
            (/\ \A i \in 1..(j - 1) : Fails(last.script[i])
             /\ last.script[j].k = "return")
            => /\ TargetCalls(last.events) = j
               /\ last.out = last.script[j]

C5_Witness ==
    /\ Called("retry")
    /\ IntOf(Given("n_tries")) = 3
    /\ Fails(last.script[1])
    /\ Fails(last.script[2])
    /\ last.script[3].k = "return"
    /\ TargetCalls(last.events) = 3
    /\ last.out = Ret(PyInt(3))

\* C6, as stated: catch given return_on_exception = v returns v for every value v
\* whenever the target fails, and the target's result when it does not.
C6_AnyValueIsReturned ==
    (Called("catch") /\ "return_on_exception" \in DOMAIN decor.kw) =>
        /\ Fails(last.script[1]) => last.out = Ret(decor.kw["return_on_exception"])
        /\ last.script[1].k = "return" => last.out = last.script[1]

\* C6, amended: catch given return_on_exception = v, v other than None, returns v
\* whenever the target raises an instance of Exception, and the target's result
\* when the target does not raise.
C6_NonNoneValueIsReturned ==
    (Called("catch") /\ "return_on_exception" \in DOMAIN decor.kw
                     /\ decor.kw["return_on_exception"] # PyNone) =>
        /\ Fails(last.script[1]) => last.out = Ret(decor.kw["return_on_exception"])
        /\ last.script[1].k = "return" => last.out = last.script[1]

C6_Witness ==
    /\ Called("catch")
    /\ "return_on_exception" \in DOMAIN decor.kw
    /\ decor.kw["return_on_exception"] = PyInt(0)
    /\ Fails(last.script[1])
    /\ last.out = Ret(PyInt(0))

\* C7: catch given neither return_on_exception nor raise_on_exception lets every
\* exception of the target reach the caller unchanged, type and message.
C7_ErrorPropagatesUnchanged ==
    (Called("catch") /\ Given("return_on_exception") = PyNone
                     /\ Given("raise_on_exception") = PyNone
                     /\ last.script[1].k = "raise") =>
        /\ last.out.k = "raise"
        /\ last.out.exc.type = last.script[1].exc.type
        /\ last.out.exc.msg = last.script[1].exc.msg

C7_Witness ==
    /\ Called("catch")
    /\ Given("return_on_exception") = PyNone
    /\ Given("raise_on_exception") = PyNone
    /\ last.script[1] = Raise(ErrType)
    /\ last.out = Raise(ErrType)

\* what `raise E` raises for an exception class or instance E
Raised(E) == IF E.t = "excclass" THEN PyExc(E.name, "") ELSE E

\* C8: catch given raise_on_exception = E and no return_on_exception raises E
\* whenever the target fails; given both, it returns return_on_exception and does
\* not raise.
C8_RaiseSubstituteAndPrecedence ==
    (Called("catch") /\ Given("raise_on_exception") # PyNone /\ Fails(last.script[1])) =>
        IF Given("return_on_exception") = PyNone
          THEN last.out = Raise(Raised(Given("raise_on_exception")))
          ELSE last.out = Ret(Given("return_on_exception"))

C8_Witness ==
    /\ Called("catch")
    /\ Given("raise_on_exception") = PyExcClass("ValueError")
    /\ Given("return_on_exception") = PyInt(-999)
    /\ last.script[1] = Raise(ErrType)
    /\ last.out = Ret(PyInt(-999))

\* the value the last call supplied for parameter p of the target
Supplied(p) ==
    IF p \in DOMAIN last.kw THEN last.kw[p]
    ELSE last.pos[IndexOf(wrapper.func.params, p)]
IsSupplied(p) ==
    p \in DOMAIN last.kw \/ IndexOf(wrapper.func.params, p) <= Len(last.pos)
\* the call's arguments fit the target's signature
Fits == Required(wrapper.func) \subseteq {p \in Range(wrapper.func.params) : IsSupplied(p)}

\* C9: a call of a check_args wrapper in which the value bound to an argument that
\* has a rule breaks the rule raises ValueError, and the target is not invoked.
C9_BrokenRuleStopsTheCall ==
    (Called("check_args") /\ Fits) =>
        \A p \in DOMAIN decor.kw :
            (IsSupplied(p) /\ ~RuleHolds(decor.kw[p], Supplied(p))) =>
                /\ last.out.k = "raise"
                /\ last.out.exc.type = "ValueError"
                /\ TargetCalls(last.events) = 0

C9_Witness ==
    /\ Called("check_args")
    /\ decor.kw = [b |-> PyPred("lt", 2)]
    /\ last.pos = <<PyInt(1)>>
    /\ last.kw = [b |-> PyInt(3)]
    /\ last.out.k = "raise"
    /\ last.out.exc.type = "ValueError"
    /\ runs = 0
    /\ invocations = 2

\* the TypeErrors multi_shape_tracker raises for a bad option value
ConfigErrorMessages ==
    {"shapes_in values must all be str or positive int",
     "shapes_in must be either a str, a positive int, a sequence of str's, a sequence of positive int's or None",
     "shapes_out must be positive int, sequence of positive int, 'all' or None",
     "raise_if_empty must be either 'any', 'all' or None"}

\* C10: an invalid configuration value is rejected when the factory is applied to
\* the target; no call of a wrapper raises a configuration error.
C10_NoConfigErrorAtCallTime ==
    Called("multi_shape_tracker") =>
        ~(/\ last.out.k = "raise"
          /\ last.out.exc.type = "TypeError"
          /\ last.out.exc.msg \in ConfigErrorMessages)

\* the factories whose wrapper performs one effect per call
SideEffectFactories == {"log", "chime_on_end", "notify_on_end"}

\* the event is the wrapper's effect: a logging_fn call, notifier.notify(), a chime
IsEffect(ev) == ev[1] \in {"log", "notify", "chime"}

\* the positions of the wrapper's effects among the events of the last call
EffectsAt == {i \in DOMAIN last.events : IsEffect(last.events[i])}

\* the last call executed the target's body
TargetRan == \E i \in DOMAIN last.events : last.events[i] = EvCall

\* every effect of the last call comes after the call of the target
EffectsFollowTarget ==
    \A i \in EffectsAt : \A j \in DOMAIN last.events : last.events[j] = EvCall => j < i

\* C11: for log, chime_on_end and notify_on_end, whenever the target raises an
\* exception e (an instance of Exception), the wrapper call performs its effect
\* after the target has raised and then raises that same exception e: it does not
\* return and it does not raise another error.
C11_EffectThenSameError ==
    \A f \in SideEffectFactories :
        (Called(f) /\ TargetRan /\ Fails(last.script[1])) =>
            /\ last.out = Raise(last.script[1].exc)
            /\ EffectsAt # {}
            /\ EffectsFollowTarget

C11_Witness ==
    /\ Called("chime_on_end")
    /\ TargetRan
    /\ last.script[1] = Raise(ErrType)
    /\ last.out = Raise(ErrType)
    /\ last.events = <<EvCall, EvChime("error")>>

\* C12: for log, notify_on_end and chime_on_end, every invocation of the wrapper
\* performs the wrapper's effect exactly once, after the target has returned or
\* raised, whatever the outcome of the invocation.
C12_EffectExactlyOnce ==
    \A f \in SideEffectFactories :
        Called(f) => (Cardinality(EffectsAt) = 1 /\ EffectsFollowTarget)

\* thread t has completed a call that no other thread's call overlapped: the others
\* were outside the wrapper when it entered and none has acted since
CalledAlone(t) ==
    /\ threads[t].pc = "done"
    /\ threads[t].quiet
    /\ ~threads[t].disturbed
    /\ \A u \in Threads \ {t} : threads[u].pc = "idle"

\* C13: after a memory_limit-wrapped call finishes, by return, by MemoryError or by
\* any other exception, the soft and hard RLIMIT_AS equal the limit that was in
\* force immediately before the call.
C13_LimitRestored ==
    \A t \in Threads : CalledAlone(t) => os.rlimit = threads[t].before

\* C16: a memory_limit-wrapped target that executes undisturbed runs under its
\* configured bound; with two threads there is an interleaving in which a target is
\* still executing after the other call's restoration has reset the limit, so that
\* it runs without its bound (the witness).
C16_BoundHeldUnlessDisturbed ==
    \A t \in Threads :
        (threads[t].pc = "running" /\ ~threads[t].disturbed) =>
            os.rlimit.soft = threads[t].bound

C16_Witness ==
    /\ threads["t1"].pc = "running"
    /\ threads["t2"].pc = "done"
    /\ os.rlimit.soft = threads["t2"].locals.free_memory
    /\ os.rlimit.soft # threads["t1"].bound

\* the threads that have stored their increment
Stored == {t \in Threads : threads[t].pc \in {"stored", "done"}}

\* C15: an update of _calls is lost only when two callers interleave: as long as no
\* caller stored between another caller's load and store, _calls equals the seed
\* plus the number of increments stored, and it never exceeds that sum.  With two
\* concurrent callers a lost update is reachable: both invocations complete and
\* _calls is strictly less than seed + 2 (the witness).
C15_LostUpdateOnlyByInterleaving ==
    Built("call_counter") =>
        /\ IntOf(wrapper.attrs["_calls"]) <= IntOf(Given("seed")) + Cardinality(Stored)
        /\ (\A t \in Stored : ~threads[t].overtaken) =>
               IntOf(wrapper.attrs["_calls"]) = IntOf(Given("seed")) + Cardinality(Stored)

C15_Witness ==
    /\ Built("call_counter")
    /\ \A t \in Threads : threads[t].pc = "done"
    /\ invocations = Cardinality(Threads)
    /\ IntOf(wrapper.attrs["_calls"]) < IntOf(Given("seed")) + invocations

\* the handler bound to SIGALRM raises a TimeoutError, as the one timeout defines
\* does and as a custom one is documented to do
HandlerRaisesTimeout ==
    /\ os.handlers[SigOf(SIGALRM)] # SIG_DFL
    /\ os.handlers[SigOf(SIGALRM)].raises # NoError
    /\ os.handlers[SigOf(SIGALRM)].raises.type = "TimeoutError"

AlwaysFails == Called("retry") /\ \A i \in DOMAIN last.script : Fails(last.script[i])

\* how many times the target had been invoked before the p-th event of the last call
CallsBefore(p) == Cardinality({j \in 1..(p - 1) : last.events[j] = EvCall})

\* the log lines and the delays of the last call, in order
LogLines == SelectSeq(last.events, LAMBDA ev : ev[1] = "log")
Delays == SelectSeq(last.events, LAMBDA ev : ev[1] = "sleep")

\* the line retry logs when attempt i of k fails with error e
FailureLine(i, k, e) == EvLog(<<"Attempt", i, k, "Failed with error:", e.msg>>)

\* C17: for a target that fails on every attempt and n_tries = k, retry emits
\* exactly k log lines, line i being 'Attempt i/k: Failed with error: ...' with the
\* error of attempt i, emitted after attempt i and before attempt i + 1; no success
\* line is emitted.
C17_OneFailureLinePerAttempt ==
    AlwaysFails =>
        LET k == IntOf(Given("n_tries"))
        IN  /\ Len(LogLines) = k
            /\ \A i \in 1..k : LogLines[i] = FailureLine(i, k, last.script[i].exc)
            /\ \A p \in DOMAIN last.events :
                  last.events[p][1] = "log" =>
                      last.events[p] = FailureLine(CallsBefore(p), k, last.script[CallsBefore(p)].exc)

C17_Witness ==
    /\ AlwaysFails
    /\ IntOf(Given("n_tries")) = 2
    /\ last.script = <<Raise(ErrType), Raise(ErrValue)>>
    /\ LogLines = <<FailureLine(1, 2, ErrType), FailureLine(2, 2, ErrValue)>>
    /\ last.out = Raise(ErrValue)

\* C18: retry waits delay seconds only between two consecutive attempts: for a
\* target that fails on every attempt with n_tries = k exactly k - 1 delays occur,
\* and once the last attempt has failed its error is raised without a further delay.
C18_DelayOnlyBetweenAttempts ==
    AlwaysFails =>
        LET k == IntOf(Given("n_tries"))
        IN  /\ Len(Delays) = k - 1
            /\ \A p \in DOMAIN last.events : last.events[p][1] = "sleep" => CallsBefore(p) < k

\* C19: for any positional configuration values, decorator(None, *config_args,
\* **config_kwargs) returns a deferred decorator d such that d(target) equals
\* factory(target, *config_args, **config_kwargs).
C19_PositionalConfigurationDeferred ==
    ({"positional", "positional_direct"} \subseteq DOMAIN d_def
     /\ LeadingGiven(d_in.factory, d_in.kw) > 0)
    => d_def["positional"] = d_def["positional_direct"]

\* C20: a dispatched factory called in configured form, with no target, never
\* raises, even for invalid configuration values: it returns the deferred decorator.
\* The configuration error is raised when the deferred decorator is applied to a
\* target, and it is the error that factory(target, **config) raises.
C20_ConfigurationErrorOnlyOnApplication ==
    /\ "deferred" \in DOMAIN d_def =>
          /\ d_def["deferred"].k = "return"
          /\ d_def["deferred"].val = Partial(d_in.factory, <<>>, d_in.kw)
    /\ {"configured", "direct"} \subseteq DOMAIN d_res =>
          d_res["configured"] = d_res["direct"]

C20_Witness ==
    /\ d_in # NoCall
    /\ d_in.factory = "retry"
    /\ d_in.kw = [n_tries |-> PyInt(0)]
    /\ "deferred" \in DOMAIN d_def
    /\ d_def["deferred"].k = "return"
    /\ {"configured", "direct"} \subseteq DOMAIN d_res
    /\ d_res["configured"] = Raise(PyExc("ValueError", "n_tries should be a positive integer"))
    /\ d_res["direct"] = d_res["configured"]

\* C21: for every factory of the catalog, in bare and in configured form, the
\* wrapper returned for a target reports the target's name and docstring and not
\* the name of the internal wrapper function; the dispatched factory reports the
\* original factory's name and docstring.
C21_WrapperReportsTargetIdentity ==
    (d_in # NoCall /\ "decorator" \in DOMAIN d_in) =>
        /\ d_in.decorator.name = FactoryFn(d_in.factory).name
        /\ d_in.decorator.doc = FactoryFn(d_in.factory).doc
        /\ \A form \in (DOMAIN d_res) \cap {"bare", "configured"} :
              d_res[form].k = "return" =>
                  /\ d_res[form].val.name = d_in.target.name
                  /\ d_res[form].val.doc = DocOf(d_in.target)
                  /\ d_res[form].val.name # InnerWrapper.name

C21_Witness ==
    /\ d_in # NoCall
    /\ "decorator" \in DOMAIN d_in
    /\ d_in.factory = "shape_tracker"
    /\ d_in.decorator.name = "shape_tracker"
    /\ d_in.target = Documented(Scale, "Multiply a by b")
    /\ {"bare", "configured"} \subseteq DOMAIN d_res
    /\ d_res["bare"].k = "return"
    /\ d_res["bare"].val.name = "scale"
    /\ d_res["configured"].k = "return"
    /\ d_res["configured"].val.name = "scale"
    /\ d_res["configured"].val.doc = PyStr("Multiply a by b")

\* the _calls attribute of object i of heap h
CallsOf(h, i) == IntOf(h[i].attrs["_calls"])

\* the call_counter wrappers of the heap
Counters == {i \in DOMAIN heap : heap[i].t = "wrapper" /\ heap[i].factory = "call_counter"}

\* the last action invoked object i
Invoked(i) == last # NoCall /\ "obj" \in DOMAIN last /\ last.obj = i

\* C22: two call_counter wrappers, created from the same target (a plain function)
\* directly or from the same deferred decorator call_counter(seed=s), hold
\* independent counters: invoking one increments only its own _calls and leaves the
\* other wrapper's _calls and the target callable unchanged.
C22_CountersAreIndependent ==
    \A i \in Counters, j \in Counters :
        (/\ i # j
         /\ heap[i].func = heap[j].func
         /\ heap[heap[i].func.id].t = "fn"
         /\ Invoked(i)
         /\ j \in DOMAIN last.before) =>
            /\ CallsOf(heap, i) = CallsOf(last.before, i) + 1
            /\ CallsOf(heap, j) = CallsOf(last.before, j)
            /\ heap[heap[i].func.id] = last.before[heap[i].func.id]

C22_Witness ==
    \E i \in Counters, j \in Counters :
        /\ i # j
        /\ heap[i].via = "deferred"
        /\ heap[j].via = "deferred"
        /\ heap[i].cfg = heap[j].cfg
        /\ Invoked(i)
        /\ j \in DOMAIN last.before
        /\ CallsOf(heap, i) = IntOf(heap[i].cfg.seed) + 2
        /\ CallsOf(heap, j) = IntOf(heap[j].cfg.seed)

\* the wrappers that a factory other than call_counter made around a call_counter
\* wrapper
Outers ==
    {o \in DOMAIN heap :
        /\ heap[o].t = "wrapper"
        /\ heap[o].factory # "call_counter"
        /\ heap[o].func.id \in Counters}

\* every attempt of the last call failed with an instance of Exception
AllAttemptsFailed(k) ==
    \A a \in 1..k : last.script[a].k = "raise" /\ IsException(last.script[a].exc)

\* C30: when a call_counter wrapper w is itself wrapped by another decorator of the
\* catalog, the outer wrapper's _calls is a copy taken at decoration time: it stays
\* equal to the value w._calls had then, while w._calls increases by one for each
\* invocation of w, that is by k for one call of a retry wrapper with n_tries = k
\* around a target that always fails.
C30_OuterCallsIsACopy ==
    /\ \A o \in Outers :
          /\ "_calls" \in DOMAIN heap[o].attrs
          /\ heap[o].attrs["_calls"] = heap[o].func_dict["_calls"]
          /\ Invoked(o) =>
                /\ CallsOf(heap, heap[o].func.id)
                     = CallsOf(last.before, heap[o].func.id) + last.calls
                /\ (heap[o].factory = "retry"
                    /\ AllAttemptsFailed(IntOf(heap[o].cfg.n_tries))) =>
                       last.calls = IntOf(heap[o].cfg.n_tries)
    /\ \A w \in Counters : Invoked(w) => CallsOf(heap, w) = CallsOf(last.before, w) + 1

C30_Witness ==
    \E o \in Outers :
        /\ Invoked(o)
        /\ heap[o].factory = "retry"
        /\ heap[o].cfg.n_tries = PyInt(2)
        /\ AllAttemptsFailed(2)
        /\ CallsOf(last.before, heap[o].func.id) = CallsOf(heap, o)
        /\ CallsOf(heap, heap[o].func.id) = CallsOf(heap, o) + 2

\* the last call was stopped by the wrapper's own rule check: a ValueError raised
\* before the target was called
RuleViolation ==
    /\ Called("check_args")
    /\ last.out.k = "raise"
    /\ last.out.exc.type = "ValueError"
    /\ TargetCalls(last.events) = 0

\* C23: every error raised by a wrapper itself, such as the ValueError of a
\* check_args rule violation, carries the name of the target callable that was
\* being invoked.
C23_WrapperErrorsNameTarget ==
    RuleViolation => wrapper.func.name \in Range(last.out.exc.msg)

\* the value each parameter of the target holds in the last call: the supplied
\* arguments, and the declared defaults of the parameters left out
ValuesInCall ==
    Override(PyBind(wrapper.func.params, Required(wrapper.func), FALSE,
                    last.pos, last.kw).args,
             wrapper.func.defaults)

\* C24: on every call of a check_args-wrapped target in which the target executes,
\* each parameter of the target that has a rule holds a value satisfying that rule,
\* including parameters that the caller omitted and that take their declared default.
C24_RulesHoldWheneverTargetRuns ==
    (Called("check_args") /\ TargetCalls(last.events) > 0) =>
        \A p \in (DOMAIN wrapper.cfg) \cap (DOMAIN ValuesInCall) :
            RuleHolds(wrapper.cfg[p], ValuesInCall[p])

\* the shapes of the outputs that shapes_out tracks in the last call
TrackedShapes == ParseShapesOut(wrapper.cfg.shapes_out, AsResults(last.script[1].val))

\* the last call is one of a wrapper with valid options and shapes_out not None,
\* whose target returned outputs among which the tracked ones exist
TrackedCall ==
    /\ Called("multi_shape_tracker")
    /\ wrapper.cfg.shapes_out # PyNone
    /\ wrapper.cfg.raise_if_empty \in {PyStr("any"), PyStr("all"), PyNone}
    /\ TargetCalls(last.events) = 1
    /\ last.script[1].k = "return"
    /\ TrackedShapes.ok

\* C25: multi_shape_tracker with shapes_out not None: with raise_if_empty = 'any'
\* the call raises EmptyShapeError exactly when at least one tracked output has
\* first dimension 0; with 'all' exactly when there is at least one tracked output
\* and every tracked output has first dimension 0; in every other case, and with
\* raise_if_empty = None, it returns the target's result unchanged.
C25_EmptyShapeStrategies ==
    TrackedCall =>
        LET shapes == TrackedShapes.val
            someEmpty == \E i \in DOMAIN shapes : shapes[i][1] = 0
            allEmpty == shapes # <<>> /\ \A i \in DOMAIN shapes : shapes[i][1] = 0
        IN  IF \/ wrapper.cfg.raise_if_empty = PyStr("any") /\ someEmpty
               \/ wrapper.cfg.raise_if_empty = PyStr("all") /\ allEmpty
              THEN last.out.k = "raise" /\ last.out.exc.type = "EmptyShapeError"
              ELSE last.out = last.script[1]

\* values of arg_to_track that pass shape_tracker's validation
ValidArgToTrack == {PyInt(0), PyInt(1), PyInt(2), PyStr("a"), PyStr("b"), PyStr("z")}

\* C26: shape_tracker uses arg_to_track only if shape_in is True: with
\* shape_in = False and shape_delta = False, the outcome of every wrapper call is
\* the same for every valid arg_to_track value, including an index or a name that
\* matches no supplied argument.
C26_ArgToTrackUnusedWithoutShapeIn ==
    (/\ Called("shape_tracker")
     /\ wrapper.cfg.shape_in = PyBool(FALSE)
     /\ wrapper.cfg.shape_delta = PyBool(FALSE)) =>
        \A a \in ValidArgToTrack :
            WrapperCall([wrapper EXCEPT !.cfg.arg_to_track = a],
                        last.pos, last.kw, last.script).out = last.out

\* the timeout wrappers decorated with the default handler on SIGALRM
OnAlarm == {i \in Timeouts : SigOf(heap[i].cfg.signum) = SigOf(SIGALRM)}

\* the one decorated last
LatestOnAlarm == CHOOSE i \in OnAlarm : \A j \in OnAlarm : j <= i

\* the name of the target that wrapper i of the heap wraps
TargetName(i) == heap[heap[i].func.id].name

\* the last call was one of a timeout wrapper whose time limit expired
ExpiredCall ==
    /\ last # NoCall
    /\ "obj" \in DOMAIN last
    /\ last.obj \in Timeouts
    /\ Expires(IntOf(heap[last.obj].cfg.time_limit), last.script[1])

\* C27: timeout installs its signal handler process-wide when the factory is
\* applied, not when the wrapper is called: after several targets were decorated
\* with timeout (default handler, same signum), a time-limit expiry during a call
\* of any of the wrappers runs the handler installed by the last decoration, so the
\* TimeoutError raised names the target decorated last, not the one called.
C27_HandlerOfLastDecoration ==
    (ExpiredCall /\ OnAlarm # {}) =>
        last.out = Raise(PyExc("TimeoutError",
                               <<"Reached time limit, terminating",
                                 TargetName(LatestOnAlarm)>>))

C27_Witness ==
    /\ ExpiredCall
    /\ OnAlarm = Timeouts
    /\ TargetName(last.obj) = "add"
    /\ last.obj < LatestOnAlarm
    /\ TargetName(LatestOnAlarm) = "scale"
    /\ last.out.k = "raise"
    /\ last.out.exc.msg = <<"Reached time limit, terminating", "scale">>

\* C28: when the target of a timeout wrapper (limit L1) calls another timeout
\* wrapper (limit L2), the inner wrapper replaces the pending alarm on entry and
\* cancels every alarm on exit: once the inner call has returned no alarm is
\* pending, and the outer target returns however long it runs, beyond L1 too,
\* without a TimeoutError.
C28_NoLimitAfterInnerCall ==
    /\ threads["t1"].pc = "after" => os.alarm = 0
    /\ (threads["t1"].pc = "done" /\ threads["t1"].inner_returned) =>
          threads["t1"].out = Ret(PyInt(3))

C28_Witness ==
    /\ threads["t1"].pc = "done"
    /\ threads["t1"].inner_returned
    /\ OnAlarm = Timeouts
    /\ threads["t1"].ran > IntOf(heap[threads["t1"].outer].cfg.time_limit)
    /\ threads["t1"].out.k = "return"

\* C29: for every invocation of a timeout wrapper, whether the target returns,
\* raises its own error or is timed out, no alarm is pending once the wrapper has
\* exited: the alarm set at entry is cancelled on every exit path.
C29_NoAlarmPendingAfterExit ==
    (Called("timeout") /\ last.out.k # "killed") =>
        /\ os.alarm = 0
        /\ last.events[1] = EvAlarm(IntOf(wrapper.cfg.time_limit))
        /\ last.events[Len(last.events)] = EvAlarm(0)

C29_Witness ==
    /\ Called("timeout")
    /\ IntOf(wrapper.cfg.time_limit) > 0
    /\ last.out.k = "raise"
    /\ last.out.exc.type = "TimeoutError"
    /\ os.alarm = 0

====
